---------------------------- MODULE Spec2Model ----------------------------
(***************************************************************************)
(* Model of the alcoholometry engine of alquimista (lib/density.ts, the    *)
(* OIML R 22 polynomial variant) and of its callers.                       *)
(*                                                                         *)
(* JavaScript numbers are modelled as binary fixed-point numbers: a number *)
(* is a tuple of six limbs of 14 bits, least significant first, the first  *)
(* four limbs holding the fraction (56 bits) and the last two the integer  *)
(* part.  The five low limbs lie in 0..BASE-1; the last limb is signed and *)
(* carries the sign of the number.  Sums and differences are exact;        *)
(* products and quotients are rounded down to a multiple of 2^-56, which   *)
(* is finer than the spacing of IEEE doubles at the magnitudes the engine  *)
(* works with (densities around 1000 kg/m3).  Dyadic values such as the    *)
(* bisection midpoints k/2^40 and 100*k/2^30 are represented exactly.      *)
(***************************************************************************)
EXTENDS Integers, Sequences, FiniteSets, TLC

VARIABLES
    pc,     \* position of the running call: "idle", "bisect", "search", "done"
    op,     \* the public operation that is running or has just returned
    args,   \* its arguments, in hundredths (2500 is 25.00)
    frame,  \* the locals of the loop that is running
    ret     \* the value returned by the last call

vars == <<pc, op, args, frame, ret>>

---------------------------------------------------------------------------
(* Fixed-point arithmetic *)

\* the element of a singleton.  Only({e : x \in {v}}) is e with x standing for
\* the value of v, which is computed once and before e, as JavaScript
\* computes a const before the statements that use it
Only(S) == CHOOSE x \in S : TRUE

BASE == 2^14

Zero == <<0, 0, 0, 0, 0, 0>>

\* the integer i
FromInt(i) == <<0, 0, 0, 0, i % BASE, i \div BASE>>

One == FromInt(1)

\* the integer part of a, rounding down
Floor(a) == a[5] + BASE * a[6]

IsNeg(a) == a[6] < 0

\* a + b, exact
Add(a, b) ==
    LET t1 == a[1] + b[1]
        t2 == a[2] + b[2] + (t1 \div BASE)
        t3 == a[3] + b[3] + (t2 \div BASE)
        t4 == a[4] + b[4] + (t3 \div BASE)
        t5 == a[5] + b[5] + (t4 \div BASE)
        t6 == a[6] + b[6] + (t5 \div BASE)
    IN  << t1 % BASE, t2 % BASE, t3 % BASE, t4 % BASE, t5 % BASE, t6 >>

\* a - b, exact
Sub(a, b) ==
    LET t1 == a[1] - b[1]
        t2 == a[2] - b[2] + (t1 \div BASE)
        t3 == a[3] - b[3] + (t2 \div BASE)
        t4 == a[4] - b[4] + (t3 \div BASE)
        t5 == a[5] - b[5] + (t4 \div BASE)
        t6 == a[6] - b[6] + (t5 \div BASE)
    IN  << t1 % BASE, t2 % BASE, t3 % BASE, t4 % BASE, t5 % BASE, t6 >>

Neg(a) == Sub(Zero, a)

Abs(a) == IF IsNeg(a) THEN Neg(a) ELSE a

\* a < b and a <= b
Lt(a, b) == IsNeg(Sub(a, b))

Le(a, b) == ~Lt(b, a)

\* a * m for a small integer m, exact
MulSmall(a, m) ==
    LET t1 == a[1] * m
        t2 == a[2] * m + (t1 \div BASE)
        t3 == a[3] * m + (t2 \div BASE)
        t4 == a[4] * m + (t3 \div BASE)
        t5 == a[5] * m + (t4 \div BASE)
        t6 == a[6] * m + (t5 \div BASE)
    IN  << t1 % BASE, t2 % BASE, t3 % BASE, t4 % BASE, t5 % BASE, t6 >>

\* a * b, rounded down to a multiple of 2^-56
Mul(a, b) ==
    IF b = Zero \/ a = Zero THEN Zero ELSE
    LET c0 == a[1]*b[1]
        c1 == a[1]*b[2] + a[2]*b[1]
        c2 == a[1]*b[3] + a[2]*b[2] + a[3]*b[1]
        c3 == a[1]*b[4] + a[2]*b[3] + a[3]*b[2] + a[4]*b[1]
        c4 == a[1]*b[5] + a[2]*b[4] + a[3]*b[3] + a[4]*b[2] + a[5]*b[1]
        c5 == a[1]*b[6] + a[2]*b[5] + a[3]*b[4] + a[4]*b[3] + a[5]*b[2] + a[6]*b[1]
        c6 == a[2]*b[6] + a[3]*b[5] + a[4]*b[4] + a[5]*b[3] + a[6]*b[2]
        c7 == a[3]*b[6] + a[4]*b[5] + a[5]*b[4] + a[6]*b[3]
        c8 == a[4]*b[6] + a[5]*b[5] + a[6]*b[4]
        c9 == a[5]*b[6] + a[6]*b[5]
        c10 == a[6]*b[6]
        t0 == c0
        t1 == c1 + (t0 \div BASE)
        t2 == c2 + (t1 \div BASE)
        t3 == c3 + (t2 \div BASE)
        t4 == c4 + (t3 \div BASE)
        t5 == c5 + (t4 \div BASE)
        t6 == c6 + (t5 \div BASE)
        t7 == c7 + (t6 \div BASE)
        t8 == c8 + (t7 \div BASE)
        t9 == c9 + (t8 \div BASE) + BASE * c10
    IN  << t4 % BASE, t5 % BASE, t6 % BASE, t7 % BASE, t8 % BASE, t9 >>

\* a / d for a small positive integer d, rounded down to a multiple of 2^-56
DivSmall(a, d) ==
    LET q6 == a[6] \div d
        u5 == (a[6] % d) * BASE + a[5]
        u4 == (u5 % d) * BASE + a[4]
        u3 == (u4 % d) * BASE + a[3]
        u2 == (u3 % d) * BASE + a[2]
        u1 == (u2 % d) * BASE + a[1]
        top == <<q6, u5 \div d, u4 \div d, u3 \div d, u2 \div d, u1 \div d>>
    IN  <<top[6], top[5], top[4], top[3], top[2], top[1]>>

\* n / 100: an input given in hundredths
Num100(n) == DivSmall(FromInt(n), 100)

\* the number whose limb k is 1 and whose other limbs are 0
Unit(k) == <<IF k = 1 THEN 1 ELSE 0, IF k = 2 THEN 1 ELSE 0, IF k = 3 THEN 1 ELSE 0,
             IF k = 4 THEN 1 ELSE 0, IF k = 5 THEN 1 ELSE 0, IF k = 6 THEN 1 ELSE 0>>

\* the largest digit q in lo..hi with (acc + q * unit) * b <= a
RECURSIVE DivDigit(_, _, _, _, _, _)
DivDigit(a, b, acc, unit, lo, hi) ==
    IF lo = hi THEN lo
    ELSE LET m == (lo + hi + 1) \div 2
         IN  IF Le(Mul(Add(acc, MulSmall(unit, m)), b), a)
             THEN DivDigit(a, b, acc, unit, m, hi)
             ELSE DivDigit(a, b, acc, unit, lo, m - 1)

\* the quotient of a >= 0 by b > 0, limb k and below still to be found
RECURSIVE DivLimbs(_, _, _, _)
DivLimbs(a, b, acc, k) ==
    IF k = 0 THEN acc
    ELSE LET q == DivDigit(a, b, acc, Unit(k), 0, BASE - 1)
         IN  IF q = 0 THEN DivLimbs(a, b, acc, k - 1)
             ELSE DivLimbs(a, b, Add(acc, MulSmall(Unit(k), q)), k - 1)

\* a / b for b # 0, to within the rounding of the products
Div(a, b) ==
    IF b = One THEN a
    ELSE IF a = Zero THEN Zero
    ELSE LET q == DivLimbs(Abs(a), Abs(b), Zero, 6)
         IN  IF IsNeg(a) = IsNeg(b) THEN q ELSE Neg(q)

\* g[k]/10^4 + g[k+1]/10^8 + ...
RECURSIVE DecFrac(_, _)
DecFrac(g, k) ==
    IF k > Len(g) THEN Zero
    ELSE DivSmall(Add(FromInt(g[k]), DecFrac(g, k + 1)), 10000)

\* the number a decimal literal <<sign, ip, g>> of the source denotes:
\* sign * (ip + g[1]/10^4 + g[2]/10^8 + ...)
Dec(lit) ==
    IF lit[1] < 0 THEN Neg(Add(FromInt(lit[2]), DecFrac(lit[3], 1)))
    ELSE Add(FromInt(lit[2]), DecFrac(lit[3], 1))

\* a * 10^d
RECURSIVE Scale10(_, _)
Scale10(a, d) == IF d = 0 THEN a ELSE Scale10(MulSmall(a, 10), d - 1)

\* a faulty toFixed that cuts the decimals off: C18 fails with it
ToFixedTruncating(a, d) ==
    LET n == Floor(Scale10(Abs(a), d))
    IN  IF IsNeg(a) THEN -n ELSE n

\* Number.prototype.toFixed(d) followed by parseFloat: a rounded to d decimals,
\* ties away from zero; the result is the integer n that stands for n / 10^d
ToFixed(a, d) ==
    LET n == Floor(Add(Scale10(Abs(a), d), DivSmall(One, 2)))
    IN  IF IsNeg(a) THEN -n ELSE n

\* Math.round: the nearest integer, ties towards +Infinity
Round(a) == Floor(Add(a, DivSmall(One, 2)))

---------------------------------------------------------------------------
(* The coefficient tables (OIML R 22), as the decimal literals of the      *)
(* source: <<s, i, <<g1, g2, ...>>>> is the decimal s * i.g1g2..., each g  *)
(* a group of four decimal digits.  A, B and C hold the numbers that the   *)
(* literals denote.                                                        *)

\* 789.24 kg/m3, in hundredths
RHO_ETH_20 == 78924

A_lit ==
    << <<1, 998, <<2012, 3000>>>>,
       <<-1, 192, <<9769, 4950>>>>,
       <<1, 389, <<1238, 9580>>>>,
       <<-1, 1668, <<1039, 2300>>>>,
       <<1, 13522, <<1544, 1000>>>>,
       <<-1, 88292, <<7838, 8000>>>>,
       <<1, 306287, <<4042>>>>,
       <<-1, 613838, <<1234>>>>,
       <<1, 747017, <<2998>>>>,
       <<-1, 547846, <<1354>>>>,
       <<1, 223446, <<334>>>>,
       <<-1, 39032, <<8542, 6000>>>> >>

B_lit ==
    << <<1, 0, <<>>>>,
       <<-1, 0, <<2061, 8513>>>>,
       <<-1, 0, <<52, 6825, 4200>>>>,
       <<1, 0, <<0, 3613, 13>>>>,
       <<-1, 0, <<0, 38, 9577, 200>>>>,
       <<1, 0, <<0, 0, 7169, 3540>>>>,
       <<-1, 0, <<0, 0, 99, 7392, 3100>>>> >>

C_lit ==
    << <<1, 1, <<-1, 1, <<1611, 5600>>>>>>, <<2, 1, <<1, 1, <<3503, 2000>>>>>>, <<3, 1, <<-1, 2, <<1627, 4000>>>>>>,
       <<4, 1, <<1, 3, <<6559, 3000>>>>>>, <<5, 1, <<-1, 4, <<1378, 1000>>>>>>, <<6, 1, <<1, 1, <<7611>>>>>>,
       <<1, 2, <<1, 0, <<101, 7000>>>>>>, <<2, 2, <<-1, 0, <<384, 3700>>>>>>, <<3, 2, <<1, 0, <<890, 5600>>>>>>,
       <<4, 2, <<-1, 0, <<1473, 2100>>>>>>, <<5, 2, <<1, 0, <<1462, 3700>>>>>>, <<6, 2, <<-1, 0, <<601, 2200>>>>>>,
       <<1, 3, <<1, 0, <<1, 8844>>>>>>, <<2, 3, <<1, 0, <<5, 2018>>>>>>, <<3, 3, <<-1, 0, <<35, 420>>>>>>,
       <<4, 3, <<1, 0, <<76, 1630>>>>>>, <<5, 3, <<-1, 0, <<83, 6970>>>>>>, <<6, 3, <<1, 0, <<35, 6870>>>>>>,
       <<1, 4, <<-1, 0, <<0, 2067, 3000>>>>>>, <<2, 4, <<1, 0, <<0, 8527, 3000>>>>>>, <<3, 4, <<-1, 0, <<1, 9806>>>>>>,
       <<4, 4, <<1, 0, <<3, 9634>>>>>>, <<5, 4, <<-1, 0, <<4, 3168>>>>>>, <<6, 4, <<1, 0, <<2, 2>>>>>>,
       <<1, 5, <<1, 0, <<0, 13, 4000>>>>>>, <<2, 5, <<-1, 0, <<0, 134>>>>>>, <<3, 5, <<1, 0, <<0, 522>>>>>>,
       <<4, 5, <<-1, 0, <<0, 939>>>>>>, <<5, 5, <<1, 0, <<0, 796>>>>>>, <<6, 5, <<-1, 0, <<0, 258>>>>>> >>

\* the numbers that the first n literals of a table denote
RECURSIVE Numbers(_, _)
Numbers(lits, n) ==
    IF n = 0 THEN <<>> ELSE Append(Numbers(lits, n - 1), Dec(lits[n]))

\* the first n rows [i, j, val] of a table, val as a number
RECURSIVE Rows(_, _)
Rows(lits, n) ==
    IF n = 0 THEN <<>>
    ELSE Append(Rows(lits, n - 1), <<lits[n][1], lits[n][2], Dec(lits[n][3])>>)

A == Numbers(A_lit, Len(A_lit))

B == Numbers(B_lit, Len(B_lit))

C == Rows(C_lit, Len(C_lit))

\* 0.000025, the cubic expansion coefficient of soda-lime glass
ALPHA == Dec(<<1, 0, <<0, 2500>>>>)

\* the number of iterations of the bisection of abvToMassFraction
ABV_ITERATIONS == 40

\* the number of iterations of the search of getHydrometerCorrection
HYDRO_ITERATIONS == 30

---------------------------------------------------------------------------
(* The density polynomial *)

\* <<x^0, x^1, ..., x^n>>: Math.pow(x, k) for k = 0..n
RECURSIVE Powers(_, _)
Powers(x, n) ==
    IF n = 0 THEN <<One>>
    ELSE Only({Append(s, Mul(s[n], x)) : s \in {Powers(x, n - 1)}})

\* the terms lo..hi of a loop of rho_p_t, added up; a range is split in two
\* halves so that the evaluation stays shallow
\*   for (k = 0; k < A.length; k++) rho += A[k] * Math.pow(p, k)
RECURSIVE SumA(_, _, _)
SumA(pp, lo, hi) ==
    IF lo > hi THEN Zero
    ELSE IF lo = hi THEN Mul(A[lo + 1], pp[lo + 1])
    ELSE Add(SumA(pp, lo, (lo + hi) \div 2), SumA(pp, (lo + hi) \div 2 + 1, hi))

\*   for (k = 1; k < B.length; k++) rho += B[k] * Math.pow(dt, k)
RECURSIVE SumB(_, _, _)
SumB(dd, lo, hi) ==
    IF lo > hi THEN Zero
    ELSE IF lo = hi THEN Mul(B[lo + 1], dd[lo + 1])
    ELSE Add(SumB(dd, lo, (lo + hi) \div 2), SumB(dd, (lo + hi) \div 2 + 1, hi))

\*   for ([i, j, val] of C) rho += val * Math.pow(p, i) * Math.pow(dt, j)
RECURSIVE SumC(_, _, _, _)
SumC(pp, dd, lo, hi) ==
    IF lo > hi THEN Zero
    ELSE IF lo = hi
         THEN Only({Mul(Mul(c[3], pp[c[1] + 1]), dd[c[2] + 1]) : c \in {C[lo]}})
    ELSE Add(SumC(pp, dd, lo, (lo + hi) \div 2),
             SumC(pp, dd, (lo + hi) \div 2 + 1, hi))

\* a faulty polynomial with dt = 20 - t: C16 fails with it
rho_p_t_mirrored(p, t) ==
    Only({Add(SumA(pp, 0, Len(pp) - 1),
              Add(SumB(dd, 1, Len(dd) - 1), SumC(pp, dd, 1, Len(C)))) :
          pp \in {Powers(p, Len(A) - 1)},
          dd \in {Powers(Sub(FromInt(20), t), Len(B) - 1)}})

\* the density in kg/m3 of the mixture of mass fraction p at t degrees
rho_p_t(p, t) ==
    Only({Add(SumA(pp, 0, Len(pp) - 1),
              Add(SumB(dd, 1, Len(dd) - 1), SumC(pp, dd, 1, Len(C)))) :
          pp \in {Powers(p, Len(A) - 1)},
          dd \in {Powers(Sub(t, FromInt(20)), Len(B) - 1)}})

---------------------------------------------------------------------------
(* abvToMassFraction *)

\* the locals of the bisection before its first iteration
BisectInit == [low |-> Zero, high |-> One, p |-> DivSmall(One, 2), i |-> 0]

\* a faulty midpoint, the sum doubled instead of halved: C6 fails with it
MidDoubled(low, high) == MulSmall(Add(low, high), 2)

\* a faulty midpoint, a third of the way up: C22 fails with it
MidLowerThird(low, high) == Add(low, DivSmall(Sub(high, low), 3))

\* p = (low + high) / 2
Mid(low, high) == DivSmall(Add(low, high), 2)

\* a faulty comparison, v > targetV: C26 fails with it
AboveTargetV(p, targetV) ==
    Lt(targetV, DivSmall(MulSmall(Mul(p, rho_p_t(p, FromInt(20))), 100), RHO_ETH_20))

\* v < targetV, where v = (p * rho_p_t(p, 20)) / RHO_ETH_20
BelowTarget(p, targetV) ==
    Lt(DivSmall(MulSmall(Mul(p, rho_p_t(p, FromInt(20))), 100), RHO_ETH_20), targetV)

\* a faulty iteration that never counts: C11 fails with it
BisectStepUncounted(f, targetV) ==
    Only({IF BelowTarget(p, targetV)
          THEN [low |-> p, high |-> f.high, p |-> p, i |-> f.i]
          ELSE [low |-> f.low, high |-> p, p |-> p, i |-> f.i] :
          p \in {Mid(f.low, f.high)}})

\* one iteration of the bisection
BisectStep(f, targetV) ==
    Only({IF BelowTarget(p, targetV)
          THEN [low |-> p, high |-> f.high, p |-> p, i |-> f.i + 1]
          ELSE [low |-> f.low, high |-> p, p |-> p, i |-> f.i + 1] :
          p \in {Mid(f.low, f.high)}})

\* n iterations of the bisection, from the locals f; the iterations are run
\* in two halves so that the evaluation stays shallow
RECURSIVE Bisect(_, _, _)
Bisect(f, targetV, n) ==
    IF n = 0 THEN f
    ELSE IF n = 1 THEN BisectStep(f, targetV)
    ELSE Only({Bisect(h, targetV, n - n \div 2) : h \in {Bisect(f, targetV, n \div 2)}})

\* a faulty test that sends the strengths 0 and 100 into the loop: C5 fails
\* with it
ShortcutExclusive(abv) == Lt(abv, Zero) \/ Lt(FromInt(100), abv)

\* abv <= 0 and abv >= 100: the calls that return before the loop
Shortcut(abv) == Le(abv, Zero) \/ Le(FromInt(100), abv)

\* a faulty shortcut that takes every strength outside the loop for pure
\* ethanol: C13 fails with it
ShortcutValueOne(abv) == One

\* return 0 for abv <= 0 and return 1 for abv >= 100
ShortcutValue(abv) == IF Le(abv, Zero) THEN Zero ELSE One

abvToMassFraction(abv) ==
    IF Shortcut(abv) THEN ShortcutValue(abv)
    ELSE Bisect(BisectInit, DivSmall(abv, 100), ABV_ITERATIONS).p

---------------------------------------------------------------------------
(* calculateDilutionWater *)

\* a number a call returns: n stands for n / 10^d, d the decimals of the field
Finite(n) == [kind |-> "finite", n |-> n]

\* the kind of the quotient a / b of JavaScript, b never negative:
\* 0 / 0 is NaN, a / 0 is Infinity or -Infinity
QuotientKind(a, b) ==
    IF b # Zero THEN "finite"
    ELSE IF a = Zero THEN "NaN"
    ELSE IF IsNeg(a) THEN "-Infinity" ELSE "Infinity"

\* a faulty rounding that fails on a number that is not finite: C12 fails
\* with it
RoundedOrThrown(kind, a, d) ==
    IF kind = "finite" THEN Finite(ToFixed(a, d)) ELSE [kind |-> "RangeError", n |-> 0]

\* parseFloat(x.toFixed(d)) of a number of the given kind; NaN and the
\* infinities pass through toFixed and parseFloat unchanged
Rounded(kind, a, d) ==
    IF kind = "finite" THEN Finite(ToFixed(a, d)) ELSE [kind |-> kind, n |-> 0]

\* a faulty final mass with the two fractions exchanged: C24 fails with it
FinalMassInverted(sourceMassG, p1, p2) == Div(Mul(sourceMassG, p2), p1)

\* a faulty final mass, multiplied by p2 instead of divided: C7 fails with it
FinalMassProduct(sourceMassG, p1, p2) == Mul(Mul(sourceMassG, p1), p2)

\* m2 = (sourceMassG * p1) / p2, for p2 # 0
FinalMass(sourceMassG, p1, p2) == Div(Mul(sourceMassG, p1), p2)

\* a faulty difference, the operands exchanged: C9 fails with it
WaterToAddReversed(m2, sourceMassG) == Sub(sourceMassG, m2)

\* m2 - sourceMassG
WaterToAdd(m2, sourceMassG) == Sub(m2, sourceMassG)

\* the object returned, given p1, p2 and the kind of m2
DilutionResult(sourceMassG, p1, p2, kind) ==
    Only({[waterToAddG        |-> Rounded(kind, WaterToAdd(m2, sourceMassG), 1),
           finalMassG         |-> Rounded(kind, m2, 1),
           ethanolMassG       |-> Finite(ToFixed(Mul(sourceMassG, p1), 2)),
           sourceMassFraction |-> Finite(ToFixed(p1, 4)),
           targetMassFraction |-> Finite(ToFixed(p2, 4))] :
          m2 \in {IF kind = "finite" THEN FinalMass(sourceMassG, p1, p2)
                  ELSE Zero}})

calculateDilutionWater(sourceMassG, sourceAbv, targetAbv) ==
    Only({DilutionResult(sourceMassG, p1, p2,
                         QuotientKind(Mul(sourceMassG, p1), p2)) :
          p1 \in {abvToMassFraction(sourceAbv)},
          p2 \in {abvToMassFraction(targetAbv)}})

---------------------------------------------------------------------------
(* getHydrometerCorrection and correctHydrometerReading *)

\* the target of the earlier engine, targetRho without the term of the glass:
\* C23 fails with it
UncorrectedRho(readingAbv, tempC) ==
    rho_p_t(abvToMassFraction(readingAbv), FromInt(20))

\* correctedRho = targetRho / (1 - ALPHA * (tempC - 20))
CorrectedRho(readingAbv, tempC) ==
    Only({Div(targetRho, Sub(One, Mul(ALPHA, Sub(tempC, FromInt(20))))) :
          targetRho \in {rho_p_t(abvToMassFraction(readingAbv), FromInt(20))}})

\* a faulty start of the search, on the bracket 0..200: C27 fails with it
SearchInitDoubled(readingAbv, tempC) ==
    [low |-> Zero, high |-> FromInt(200), trueAbv |-> FromInt(100), i |-> 0,
     correctedRho |-> CorrectedRho(readingAbv, tempC)]

\* the locals of the search before its first iteration
SearchInit(readingAbv, tempC) ==
    [low |-> Zero, high |-> FromInt(100), trueAbv |-> FromInt(50), i |-> 0,
     correctedRho |-> CorrectedRho(readingAbv, tempC)]

\* a faulty comparison, rho < correctedRho: C4 fails with it
AboveTargetReversed(trueAbv, tempC, correctedRho) ==
    \E rho \in {rho_p_t(abvToMassFraction(trueAbv), tempC)} : Lt(rho, correctedRho)

\* rho > correctedRho, where rho = rho_p_t(abvToMassFraction(trueAbv), tempC)
AboveTarget(trueAbv, tempC, correctedRho) ==
    \E rho \in {rho_p_t(abvToMassFraction(trueAbv), tempC)} : Lt(correctedRho, rho)

\* a faulty iteration that moves the wrong bound: C17 fails with it
SearchStepSwapped(f, tempC) ==
    Only({IF AboveTarget(trueAbv, tempC, f.correctedRho)
          THEN [f EXCEPT !.high = trueAbv, !.trueAbv = trueAbv, !.i = f.i + 1]
          ELSE [f EXCEPT !.low = trueAbv, !.trueAbv = trueAbv, !.i = f.i + 1] :
          trueAbv \in {Mid(f.low, f.high)}})

\* one iteration of the search
SearchStep(f, tempC) ==
    Only({IF AboveTarget(trueAbv, tempC, f.correctedRho)
          THEN [f EXCEPT !.low = trueAbv, !.trueAbv = trueAbv, !.i = f.i + 1]
          ELSE [f EXCEPT !.high = trueAbv, !.trueAbv = trueAbv, !.i = f.i + 1] :
          trueAbv \in {Mid(f.low, f.high)}})

\* a faulty flag that counts 10 and 30 degrees as outside: C2 fails with it
OutsideTableRangeInclusive(tempC) ==
    Le(tempC, FromInt(10)) \/ Le(FromInt(30), tempC)

\* tempC < 10 || tempC > 30
OutsideTableRange(tempC) == Lt(tempC, FromInt(10)) \/ Lt(FromInt(30), tempC)

\* the object getHydrometerCorrection returns once its search has left the
\* locals f; correction and trueAbv are in tenths, abvRange is the pair of
\* the bounds that the source joins with a dash
HydrometerCorrection(f, readingAbv, tempC) ==
    Only({[correction   |-> ToFixed(Sub(f.trueAbv, readingAbv), 1),
           trueAbv      |-> ToFixed(f.trueAbv, 1),
           abvRange     |-> <<abvInt, abvInt + 10>>,
           tempRounded  |-> Round(tempC),
           interpolated |-> TRUE] :
          abvInt \in {Floor(DivSmall(readingAbv, 10)) * 10}})

\* { ...result, outsideTableRange, tempUsed: result.tempRounded }
HydrometerReading(result, tempC) ==
    [correction        |-> result.correction,
     trueAbv           |-> result.trueAbv,
     abvRange          |-> result.abvRange,
     tempRounded       |-> result.tempRounded,
     interpolated      |-> result.interpolated,
     outsideTableRange |-> OutsideTableRange(tempC),
     tempUsed          |-> result.tempRounded]

---------------------------------------------------------------------------
(* validateTemperature *)

\* a faulty classification that puts the boundaries 10, 15, 25 and 30 in the
\* harsher band: C1 fails with it
validateTemperatureInclusive(tempC) ==
    IF Le(tempC, FromInt(10)) \/ Le(FromInt(30), tempC)
    THEN [isValid |-> FALSE, warning |-> "danger",
          message |-> "Temperatura fuera de rango (10-30 C)"]
    ELSE [isValid |-> TRUE,
          warning |-> IF Le(tempC, FromInt(15)) \/ Le(FromInt(25), tempC)
                      THEN "caution" ELSE "none",
          message |-> ""]

\* the final variant; the strings leave out the degree sign of the source
validateTemperature(tempC) ==
    IF Lt(tempC, FromInt(10)) \/ Lt(FromInt(30), tempC)
    THEN [isValid |-> FALSE, warning |-> "danger",
          message |-> "Temperatura fuera de rango (10-30 C)"]
    ELSE [isValid |-> TRUE,
          warning |-> IF Lt(tempC, FromInt(15)) \/ Lt(FromInt(25), tempC)
                      THEN "caution" ELSE "none",
          message |-> ""]

\* the variant of the table-lookup engine
validateTemperatureTable(tempC) ==
    IF Lt(tempC, FromInt(10)) \/ Lt(FromInt(30), tempC)
    THEN [isValid |-> FALSE, warning |-> "danger",
          message |-> "Temperatura fuera de rango seguro (10-30 C)"]
    ELSE IF Lt(tempC, FromInt(15)) \/ Lt(FromInt(25), tempC)
    THEN [isValid |-> TRUE, warning |-> "caution",
          message |-> "Temperatura alejada del estandar (20 C)"]
    ELSE [isValid |-> TRUE, warning |-> "none", message |-> ""]

---------------------------------------------------------------------------
(* calculateDensity and the conversions derived from it.  The divisors of  *)
(* these operations are densities, which are not zero at the temperatures  *)
(* of this model.                                                          *)

\* a faulty conversion, by 100: C14 fails with it
Hundredth(x) == DivSmall(x, 100)

\* x / 1000: kg/m3 to g/mL
Thousandth(x) == DivSmall(x, 1000)

\* a faulty factor that compares the mixture with water alone: C19 fails
\* with it
ContractionFactorOfWater(p, rho, rho_eth, rho_wat) == Div(rho, rho_wat)

\* (v_eth + v_wat) / v_mix, where v_eth = p / rho_eth,
\* v_wat = (1 - p) / rho_wat and v_mix = 1 / rho
ContractionFactor(p, rho, rho_eth, rho_wat) ==
    Only({Div(Add(v_eth, v_wat), v_mix) :
          v_eth \in {Div(p, rho_eth)},
          v_wat \in {Div(Sub(One, p), rho_wat)},
          v_mix \in {Div(One, rho)}})

\* the object calculateDensity returns for the mass fraction p
DensityResult(p, tempC) ==
    Only({[density |-> Finite(ToFixed(rho, 6)),
           contractionFactor |->
               Finite(ToFixed(ContractionFactor(p, rho, rho_eth, rho_wat), 6))] :
          rho \in {Thousandth(rho_p_t(p, tempC))},
          rho_eth \in {Thousandth(rho_p_t(One, tempC))},
          rho_wat \in {Thousandth(rho_p_t(Zero, tempC))}})

calculateDensity(abv, tempC) ==
    Only({DensityResult(p, tempC) : p \in {abvToMassFraction(abv)}})

calculateWaterDensity(tempC) == calculateDensity(Zero, tempC).density

calculateEthanolDensity(tempC) == calculateDensity(FromInt(100), tempC).density

\* (massFrac * rho / RHO_ETH_20) * 100, where rho = rho_p_t(massFrac, 20);
\* RHO_ETH_20 is held in hundredths
massFractionToAbv(massFrac) ==
    Only({MulSmall(DivSmall(MulSmall(Mul(massFrac, rho), 100), RHO_ETH_20), 100) :
          rho \in {rho_p_t(massFrac, FromInt(20))}})

\* a faulty reading of the density field, in thousandths: C25 fails with it
Thousandths(n) == DivSmall(FromInt(n), 1000)

\* the number that a field rounded to 6 decimals holds
Millionths(n) == DivSmall(DivSmall(FromInt(n), 1000), 1000)

calculateVolumeFromMass(massG, abv, tempC) ==
    Only({[volumeMl |-> Finite(ToFixed(Div(massG, Millionths(r.density.n)), 2)),
           density |-> r.density,
           contractionFactor |-> r.contractionFactor] :
          r \in {calculateDensity(abv, tempC)}})

calculateEthanolMass(volumeMl, abv, tempC) ==
    Only({Finite(ToFixed(Mul(Mul(volumeMl, Millionths(r.density.n)), massFrac), 2)) :
          r \in {calculateDensity(abv, tempC)},
          massFrac \in {abvToMassFraction(abv)}})

---------------------------------------------------------------------------
(* The calculators of the page *)

\* n iterations of the search of getHydrometerCorrection, from the locals f,
\* run in two halves as Bisect is
RECURSIVE Search(_, _, _)
Search(f, tempC, n) ==
    IF n = 0 THEN f
    ELSE IF n = 1 THEN SearchStep(f, tempC)
    ELSE Only({Search(h, tempC, n - n \div 2) : h \in {Search(f, tempC, n \div 2)}})

getHydrometerCorrection(readingAbv, tempC) ==
    Only({HydrometerCorrection(f, readingAbv, tempC) :
          f \in {Search(SearchInit(readingAbv, tempC), tempC, HYDRO_ITERATIONS)}})

correctHydrometerReading(readingAbv, tempC) ==
    Only({HydrometerReading(result, tempC) :
          result \in {getHydrometerCorrection(readingAbv, tempC)}})

\* what parseFloat makes of a field that holds no number
NotANumber == [kind |-> "NaN", n |-> 0]

isNaN(x) == x.kind = "NaN"

\* the result of a calculator that shows nothing
Null == [kind |-> "null"]

\* a call of an engine operation, its arguments in hundredths
EngineCall(fn, arguments) == [fn |-> fn, args |-> arguments]

\* parseFloat(temp) || 20, in hundredths: NaN and 0 give 20
TempOrDefault(t) == IF isNaN(t) \/ t.n = 0 THEN 2000 ELSE t.n

\* isNaN(t) || t < -10 || t > 50
TempRejected(t) == isNaN(t) \/ t.n < -1000 \/ t.n > 5000

\* a faulty guard of WeighingCalc without the test abv < 0: C20 fails with it
WeighingRejectedAboveOnly(targetMl, abv, t) ==
    \/ isNaN(targetMl) \/ targetMl.n <= 0
    \/ isNaN(abv) \/ abv.n > 10000
    \/ TempRejected(t)

\* the guard of WeighingCalc
WeighingRejected(targetMl, abv, t) ==
    \/ isNaN(targetMl) \/ targetMl.n <= 0
    \/ isNaN(abv) \/ abv.n < 0 \/ abv.n > 10000
    \/ TempRejected(t)

\* the guard of DilutionCalc
DilutionRejected(sourceMass, sourceAbv, targetAbv, t) ==
    \/ isNaN(sourceMass) \/ sourceMass.n <= 0
    \/ isNaN(sourceAbv) \/ sourceAbv.n <= 0 \/ sourceAbv.n > 10000
    \/ isNaN(targetAbv) \/ targetAbv.n <= 0 \/ targetAbv.n >= sourceAbv.n
    \/ TempRejected(t)

\* the guard of HydrometerCalc
HydrometerRejected(reading, t) ==
    \/ isNaN(reading) \/ reading.n < 0 \/ reading.n > 10000
    \/ TempRejected(t)

\* the guard of VolumeCalc
VolumeRejected(mass, abv, t) ==
    \/ isNaN(mass) \/ mass.n <= 0
    \/ isNaN(abv) \/ abv.n < 0 \/ abv.n > 10000
    \/ TempRejected(t)

\* the call of validateTemperature with which three of the calculators begin
TempValCall(t) == EngineCall("validateTemperature", <<TempOrDefault(t)>>)

\* no value
Undefined == [kind |-> "undefined"]

\* tempVal.warning !== 'none' ? tempVal.message : undefined, the property
\* warning that a calculator passes to its temperature field
WarningProp(tempVal) ==
    IF tempVal.warning # "none"
    THEN [kind |-> "string", text |-> tempVal.message]
    ELSE Undefined

\* the warning of the calculators that validate the temperature
TempWarning(t) == WarningProp(validateTemperature(Num100(TempOrDefault(t))))

\* warning && !error: the temperature field shows the text of a warning that
\* is neither undefined nor the empty string; no calculator passes an error
WarningShown(warning) == warning.kind = "string" /\ warning.text # ""

\* WeighingCalc: the result it shows and the engine calls it makes
WeighingCalc(targetMl, abv, t) ==
    IF WeighingRejected(targetMl, abv, t)
    THEN [result |-> Null, calls |-> <<TempValCall(t)>>, warning |-> TempWarning(t)]
    ELSE Only({[result |-> [massG |-> Finite(ToFixed(Mul(Num100(targetMl.n),
                                                 Millionths(r.density.n)), 2)),
                            density |-> r.density,
                            contractionFactor |-> r.contractionFactor],
                warning |-> TempWarning(t),
                calls |-> <<TempValCall(t),
                            EngineCall("calculateDensity", <<abv.n, t.n>>)>>] :
               r \in {calculateDensity(Num100(abv.n), Num100(t.n))}})

\* DilutionCalc
DilutionCalc(sourceMass, sourceAbv, targetAbv, t) ==
    IF DilutionRejected(sourceMass, sourceAbv, targetAbv, t)
    THEN [result |-> Null, calls |-> <<>>, warning |-> Undefined]
    ELSE Only({[result |-> [waterToAddG |-> res.waterToAddG,
                            finalMassG |-> res.finalMassG,
                            ethanolMassG |-> res.ethanolMassG,
                            sourceMassFraction |-> res.sourceMassFraction,
                            targetMassFraction |-> res.targetMassFraction,
                            cf1 |-> d1.contractionFactor,
                            cf2 |-> d2.contractionFactor],
                warning |-> Undefined,
                calls |-> <<EngineCall("calculateDilutionWater",
                                       <<sourceMass.n, sourceAbv.n, targetAbv.n>>),
                            EngineCall("calculateDensity", <<sourceAbv.n, t.n>>),
                            EngineCall("calculateDensity", <<targetAbv.n, t.n>>)>>] :
               res \in {calculateDilutionWater(Num100(sourceMass.n),
                            Num100(sourceAbv.n), Num100(targetAbv.n))},
               d1 \in {calculateDensity(Num100(sourceAbv.n), Num100(t.n))},
               d2 \in {calculateDensity(Num100(targetAbv.n), Num100(t.n))}})

\* HydrometerCalc
HydrometerCalc(reading, t) ==
    IF HydrometerRejected(reading, t)
    THEN [result |-> Null, calls |-> <<TempValCall(t)>>, warning |-> TempWarning(t)]
    ELSE Only({[result |-> r,
                warning |-> TempWarning(t),
                calls |-> <<TempValCall(t),
                            EngineCall("correctHydrometerReading",
                                       <<reading.n, t.n>>)>>] :
               r \in {correctHydrometerReading(Num100(reading.n), Num100(t.n))}})

\* VolumeCalc
VolumeCalc(mass, abv, t) ==
    IF VolumeRejected(mass, abv, t)
    THEN [result |-> Null, calls |-> <<TempValCall(t)>>, warning |-> TempWarning(t)]
    ELSE Only({[result |-> r,
                warning |-> TempWarning(t),
                calls |-> <<TempValCall(t),
                            EngineCall("calculateVolumeFromMass",
                                       <<mass.n, abv.n, t.n>>)>>] :
               r \in {calculateVolumeFromMass(Num100(mass.n), Num100(abv.n),
                                              Num100(t.n))}})

---------------------------------------------------------------------------
(* The state of the page and its URL fragment *)
(* A string is the sequence of its characters; the id of a module stands   *)
(* for its characters as one.                                              *)

\* the string of one character, or of the characters c1 c2
Str1(c) == <<c>>

Str2(c1, c2) == <<c1, c2>>

DEFAULT_STATE ==
    [module |-> Str1("weighing"),
     temp |-> Str2("2", "0"),
     weighing |-> [targetMl |-> <<>>, abv |-> Str2("9", "6")],
     dilution |-> [sourceMass |-> <<>>, sourceAbv |-> Str2("9", "6"),
                   targetAbv |-> Str2("6", "0")],
     hydrometer |-> [readingAbv |-> Str2("8", "0")],
     volume |-> [mass |-> <<>>, abv |-> <<>>]]

\* s.replace(c, rep): the first c of s replaced by the string rep
RECURSIVE ReplaceFirst(_, _, _)
ReplaceFirst(s, c, rep) ==
    IF s = <<>> THEN <<>>
    ELSE IF Head(s) = c THEN rep \o Tail(s)
    ELSE <<Head(s)>> \o ReplaceFirst(Tail(s), c, rep)

\* parts.join('~')
RECURSIVE Join(_)
Join(parts) ==
    IF Len(parts) = 0 THEN <<>>
    ELSE IF Len(parts) = 1 THEN parts[1]
    ELSE parts[1] \o <<"~">> \o Join(Tail(parts))

\* s.split('~')
RECURSIVE Split(_)
Split(s) ==
    IF \A k \in 1..Len(s) : s[k] # "~" THEN <<s>>
    ELSE Only({<<SubSeq(s, 1, k - 1)>> \o Split(SubSeq(s, k + 1, Len(s))) :
               k \in {CHOOSE j \in 1..Len(s) :
                          s[j] = "~" /\ \A h \in 1..(j - 1) : s[h] # "~"}})

\* x || def
OrElse(x, def) == IF x = <<>> THEN def ELSE x

encodeState(state) ==
    Join(<<state.module, state.temp,
           OrElse(state.weighing.targetMl, Str1("_")),
           OrElse(state.weighing.abv, Str1("_")),
           OrElse(state.dilution.sourceMass, Str1("_")),
           OrElse(state.dilution.sourceAbv, Str1("_")),
           OrElse(state.dilution.targetAbv, Str1("_")),
           OrElse(state.hydrometer.readingAbv, Str1("_")),
           OrElse(state.volume.mass, Str1("_")),
           OrElse(state.volume.abv, Str1("_"))>>)

\* get(i, def) of decodeState: parts[i] && parts[i] !== '_' ? parts[i] : def
GetPart(parts, i, def) ==
    IF i + 1 <= Len(parts) /\ parts[i + 1] # <<>> /\ parts[i + 1] # Str1("_")
    THEN parts[i + 1] ELSE def

decodeState(hash) ==
    IF hash = <<>> \/ hash = Str1("#") THEN DEFAULT_STATE
    ELSE Only({
        [module |-> OrElse(GetPart(parts, 0, Str1("weighing")), Str1("weighing")),
         temp |-> GetPart(parts, 1, Str2("2", "0")),
         weighing |-> [targetMl |-> GetPart(parts, 2, <<>>),
                       abv |-> GetPart(parts, 3, Str2("9", "6"))],
         dilution |-> [sourceMass |-> GetPart(parts, 4, <<>>),
                       sourceAbv |-> GetPart(parts, 5, Str2("9", "6")),
                       targetAbv |-> GetPart(parts, 6, Str2("6", "0"))],
         hydrometer |-> [readingAbv |-> GetPart(parts, 7, Str2("8", "0"))],
         volume |-> [mass |-> GetPart(parts, 8, <<>>),
                     abv |-> GetPart(parts, 9, <<>>)]] :
        parts \in {Split(ReplaceFirst(hash, "#", <<>>))}})

\* '#' + encodeState(state), the fragment that the page keeps in the URL
HashOf(state) == Str1("#") \o encodeState(state)

\* Math.round(x) of a number x given in tenths
RoundTenths(x) == (x + 5) \div 10

\* n.toString() for an integer n
RECURSIVE Digits(_)
Digits(n) ==
    IF n < 10 THEN <<<<"0", "1", "2", "3", "4", "5", "6", "7", "8", "9">>[n + 1]>>
    ELSE Digits(n \div 10) \o Digits(n % 10)

NumberToString(n) == IF n < 0 THEN <<"-">> \o Digits(-n) ELSE Digits(n)

\* the component Home after its mount on the fragment hash: the state decoded
\* and written back to the URL, no lookup of the temperature running;
\* lookups holds, for each run of fetchGeoTemp that has not ended, the
\* request it waits for
Mounted(hash) ==
    Only({[i |-> 0, state |-> s, hash |-> HashOf(s), isLoadingGeo |-> FALSE,
           geoError |-> "null", lookups |-> <<>>] :
          s \in {decodeState(hash)}})

\* setState(s) followed by the effect that writes the fragment
WithState(f, s) == [f EXCEPT !.state = s, !.hash = HashOf(s)]

\* updateTemp(temp)
WithTemp(f, temp) ==
    WithState(f, [f.state EXCEPT !.temp = ReplaceFirst(temp, ",", Str1("."))])

\* a faulty button that is never disabled: C30 fails with it
LookupButtonAlwaysEnabled(f) == TRUE

\* disabled={isLoadingGeo}: the button of the lookup can be pressed
LookupButtonEnabled(f) == ~f.isLoadingGeo

\* the catch and the finally of fetchGeoTemp, for the run at the head of
\* lookups
LookupFailed(f, message) ==
    [f EXCEPT !.geoError = message, !.isLoadingGeo = FALSE,
              !.lookups = Tail(f.lookups)]

\* what a request can come to: a response that is ok, one that is not, and
\* no response (fetch rejects with a TypeError)
Outcomes == {"ok", "not ok", "rejected"}

\* the end of the first request
AfterGeo(f, outcome) ==
    IF outcome = "ok" THEN [f EXCEPT !.lookups = <<"weather">> \o Tail(f.lookups)]
    ELSE IF outcome = "not ok" THEN LookupFailed(f, "No se pudo obtener ubicacion")
    ELSE LookupFailed(f, "Failed to fetch")

\* the end of the second request, the temperature of the response in tenths
AfterWeather(f, outcome, temperature) ==
    IF outcome = "ok"
    THEN [WithTemp(f, NumberToString(RoundTenths(temperature)))
             EXCEPT !.isLoadingGeo = FALSE, !.lookups = Tail(f.lookups)]
    ELSE IF outcome = "not ok" THEN LookupFailed(f, "No se pudo obtener temperatura")
    ELSE LookupFailed(f, "Failed to fetch")

---------------------------------------------------------------------------
(* The calls.  A caller starts a call when no call is running and takes    *)
(* the value a call returned before it starts the next one; the two loops  *)
(* advance one iteration per step; the other operations run to their       *)
(* return in one step.  Arguments are held in hundredths.                  *)

\* the number of quarter degrees in the range of temperatures validated
MaxTempQuarters == 200

\* the index of the largest strength passed to abvToMassFraction and to
\* calculateDilutionWater
MaxAbvIndex == 7

\* the index of the largest source mass
MaxMassIndex == 3

\* the index of the largest hydrometer reading
MaxReadingIndex == 4

\* the index of the largest temperature of a hydrometer reading
MaxHydroTempIndex == 6

\* -5.00, -4.75, ..., 45.00 degrees
ValidateTemps == {25 * k - 500 : k \in 0..MaxTempQuarters}

\* -20, 0, 20, ..., 120 % ABV
AbvInputs == {2000 * k - 2000 : k \in 0..MaxAbvIndex}

\* 0, 250.25, 500.5, 750.75 g
MassInputs == {25025 * k : k \in 0..MaxMassIndex}

\* 0, 20.25, 40.5, 60.75, 81 % ABV
ReadingInputs == {2025 * k : k \in 0..MaxReadingIndex}

\* 5, 10, ..., 35 degrees
HydroTemps == {500 * k + 500 : k \in 0..MaxHydroTempIndex}

\* the index of the largest reading and of the largest temperature of the
\* corrections that are followed to their return
MaxSolverReadingIndex == 2

MaxSolverTempIndex == 2

\* 20.25, 40.5 % ABV
SolverReadings == {2025 * k : k \in 1..MaxSolverReadingIndex}

\* 5, 15, 25 degrees
SolverTemps == {1000 * k + 500 : k \in 0..MaxSolverTempIndex}

\* the index of the largest strength and of the largest temperature passed
\* to calculateDensity
MaxDensityAbvIndex == 8

MaxDensityTempIndex == 12

\* the index of the largest temperature at which the polynomial is evaluated
\* on its own
MaxRhoTempIndex == 24

\* -16, 0, 16, ..., 96, 112 % ABV, and 100
DensityAbvs == {1600 * k - 1600 : k \in 0..MaxDensityAbvIndex} \cup {10000}

\* -10, -5, ..., 50 degrees
DensityTemps == {500 * k - 1000 : k \in 0..MaxDensityTempIndex}

\* the mass fractions 0, 1/16, ..., 1, in sixteenths
RhoFractions == 0..16

\* -10, -7.5, ..., 50 degrees
RhoTemps == {250 * k - 1000 : k \in 0..MaxRhoTempIndex}

\* the largest strength, in percent, taken through abvToMassFraction and
\* back through massFractionToAbv
MaxRoundTripAbv == 104

\* -4, -3, ..., 104 % ABV
RoundTripAbvs == {100 * k - 400 : k \in 0..MaxRoundTripAbv + 4}

\* the readings and temperatures of the corrections whose direction is
\* looked at: 0.25, 39.98, 40, 40.02, 99.75 % ABV at 5, 15, 19.95, 20.05, 25,
\* 35 degrees
DirectionReadings == {25, 3998, 4000, 4002, 9975}

DirectionTemps == {500, 1500, 1995, 2005, 2500, 3500}

\* the arguments of the calls whose rounding is looked at: 250.25 and 1000
\* (g or mL), 20.25, 40 and 96 % ABV, 15 and 25.25 degrees
RoundingMasses == {25025, 100000}

RoundingAbvs == {2025, 4000, 9600}

RoundingTemps == {1500, 2525}

\* arguments outside the sensible domain: strengths below 0 and above 100,
\* masses that are negative or zero, temperatures 20 degrees outside the
\* calibration range; and one sensible value of each
ExtremeAbvs == {-2000, 5000, 12000}

ExtremeMasses == {-25025, 0, 25025}

ExtremeTemps == {-1000, 2000, 5000}

\* dilutions by much and by little water, of masses with one and with two
\* decimals, in hundredths
DiluteMasses == {104, 1000, 25025, 100000}

DiluteAbvs == {2000, 4000, 4001, 7000, 9600, 10000}

\* strengths on both sides of the two shortcuts, next to each other and far
\* apart, in hundredths
MonotoneAbvs == {-25, 0, 1, 25, 3999, 4000, 4001, 9975, 9999, 10000, 10025}

\* readings at the two ends of the scale and in its middle, and a temperature
\* on each side of the reference, in hundredths
SaturateReadings == {0, 5000, 10000}

SaturateTemps == {1500, 2500}

\* what the user types in a field: nothing, a number with a comma, and the
\* string that stands for nothing in the fragment
FieldTexts == {<<>>, <<"4", ",", "5">>, <<"_">>}

\* the fragments the page is opened on: none, the bare '#', and a fragment
\* with fewer parts than the page writes
OpeningHashes == {<<>>, <<"#">>, <<"#", "volume", "~", "5">>}

ModuleIds == {"weighing", "dilution", "hydrometer", "volume"}

\* the fields that are edited in each calculator
EditedWeighingFields == {"abv"}

EditedDilutionFields == {"sourceMass"}

EditedVolumeFields == {"abv"}

\* the runs of fetchGeoTemp that are followed at one time
MaxLookups == 2

\* the temperatures of the weather service, in tenths of a degree
WeatherTemps == {-35, 184, 185}

\* what the fields of a form parse to, in hundredths: no number, and numbers
\* on and on both sides of every limit the guards test
FormMasses == {NotANumber} \cup {Finite(n) : n \in {0, 25025}}

FormAbvs == {NotANumber} \cup {Finite(n) : n \in {-25, 0, 4000, 9600, 10000, 10025}}

FormTemps == {NotANumber} \cup {Finite(n) : n \in {-1025, -1000, 0, 2000, 5000, 5025}}

\* no locals: the call that ran last iterated no loop
NoLocals == [i |-> 0]

\* no call has returned yet
NoValue == [kind |-> "undefined"]

Init ==
    /\ pc = "idle"
    /\ op = "none"
    /\ args = [none |-> 0]
    /\ frame = NoLocals
    /\ ret = NoValue

Callable == pc = "idle"

\* the caller takes the value returned; nothing of the call is left
Release ==
    /\ pc = "done"
    /\ pc' = "idle"
    /\ op' = "none"
    /\ args' = [none |-> 0]
    /\ frame' = NoLocals
    /\ ret' = NoValue

CallValidateTemperature(t) ==
    /\ Callable
    /\ pc' = "done"
    /\ op' = "validateTemperature"
    /\ args' = [tempC |-> t]
    /\ frame' = NoLocals
    /\ ret' = validateTemperature(Num100(t))

CallValidateTemperatureTable(t) ==
    /\ Callable
    /\ pc' = "done"
    /\ op' = "validateTemperatureTable"
    /\ args' = [tempC |-> t]
    /\ frame' = NoLocals
    /\ ret' = validateTemperatureTable(Num100(t))

\* abvToMassFraction: a call that returns before the loop
AbvShortcut(abv) ==
    /\ Callable
    /\ Shortcut(Num100(abv))
    /\ pc' = "done"
    /\ op' = "abvToMassFraction"
    /\ args' = [abv |-> abv]
    /\ frame' = NoLocals
    /\ ret' = [p |-> ShortcutValue(Num100(abv))]

\* abvToMassFraction: a call that reaches the loop
AbvEnter(abv) ==
    /\ Callable
    /\ ~Shortcut(Num100(abv))
    /\ pc' = "bisect"
    /\ op' = "abvToMassFraction"
    /\ args' = [abv |-> abv]
    /\ frame' = BisectInit
    /\ ret' = NoValue

\* abvToMassFraction: one iteration, i < 40
AbvIterate ==
    /\ pc = "bisect"
    /\ frame.i < ABV_ITERATIONS
    /\ frame' = BisectStep(frame, DivSmall(Num100(args.abv), 100))
    /\ UNCHANGED <<pc, op, args, ret>>

\* abvToMassFraction: return p
AbvReturn ==
    /\ pc = "bisect"
    /\ frame.i = ABV_ITERATIONS
    /\ pc' = "done"
    /\ ret' = [p |-> frame.p]
    /\ UNCHANGED <<op, args, frame>>

CallCalculateDilutionWater(sourceMassG, sourceAbv, targetAbv) ==
    /\ Callable
    /\ pc' = "done"
    /\ op' = "calculateDilutionWater"
    /\ args' = [sourceMassG |-> sourceMassG, sourceAbv |-> sourceAbv,
                targetAbv |-> targetAbv]
    /\ frame' = NoLocals
    /\ ret' = calculateDilutionWater(Num100(sourceMassG), Num100(sourceAbv),
                                     Num100(targetAbv))

\* correctHydrometerReading calls getHydrometerCorrection, which reaches its loop
HydroEnter(readingAbv, tempC) ==
    /\ Callable
    /\ pc' = "search"
    /\ op' = "correctHydrometerReading"
    /\ args' = [readingAbv |-> readingAbv, tempC |-> tempC]
    /\ frame' = SearchInit(Num100(readingAbv), Num100(tempC))
    /\ ret' = NoValue

\* getHydrometerCorrection: one iteration, i < 30
HydroIterate ==
    /\ pc = "search"
    /\ frame.i < HYDRO_ITERATIONS
    /\ frame' = SearchStep(frame, Num100(args.tempC))
    /\ UNCHANGED <<pc, op, args, ret>>

\* getHydrometerCorrection returns and correctHydrometerReading adds its fields
HydroReturn ==
    /\ pc = "search"
    /\ frame.i = HYDRO_ITERATIONS
    /\ pc' = "done"
    /\ ret' = HydrometerReading(
                  HydrometerCorrection(frame, Num100(args.readingAbv),
                                       Num100(args.tempC)),
                  Num100(args.tempC))
    /\ UNCHANGED <<op, args, frame>>

\* rho_p_t for the mass fraction p16 / 16
CallRho(p16, t) ==
    /\ Callable
    /\ pc' = "done"
    /\ op' = "rho_p_t"
    /\ args' = [p16 |-> p16, t |-> t]
    /\ frame' = NoLocals
    /\ ret' = [rho |-> rho_p_t(DivSmall(FromInt(p16), 16), Num100(t))]

CallCalculateDensity(abv, tempC) ==
    /\ Callable
    /\ pc' = "done"
    /\ op' = "calculateDensity"
    /\ args' = [abv |-> abv, tempC |-> tempC]
    /\ frame' = NoLocals
    /\ ret' = calculateDensity(Num100(abv), Num100(tempC))

CallCalculateWaterDensity(tempC) ==
    /\ Callable
    /\ pc' = "done"
    /\ op' = "calculateWaterDensity"
    /\ args' = [tempC |-> tempC]
    /\ frame' = NoLocals
    /\ ret' = calculateWaterDensity(Num100(tempC))

CallCalculateEthanolDensity(tempC) ==
    /\ Callable
    /\ pc' = "done"
    /\ op' = "calculateEthanolDensity"
    /\ args' = [tempC |-> tempC]
    /\ frame' = NoLocals
    /\ ret' = calculateEthanolDensity(Num100(tempC))

\* massFractionToAbv called with the fraction abvToMassFraction(abv) returns
CallMassFractionToAbv(abv) ==
    /\ Callable
    /\ pc' = "done"
    /\ op' = "massFractionToAbv"
    /\ args' = [abv |-> abv, massFrac |-> abvToMassFraction(Num100(abv))]
    /\ frame' = NoLocals
    /\ ret' = [abv |-> massFractionToAbv(args'.massFrac)]

CallCalculateVolumeFromMass(massG, abv, tempC) ==
    /\ Callable
    /\ pc' = "done"
    /\ op' = "calculateVolumeFromMass"
    /\ args' = [massG |-> massG, abv |-> abv, tempC |-> tempC]
    /\ frame' = NoLocals
    /\ ret' = calculateVolumeFromMass(Num100(massG), Num100(abv), Num100(tempC))

CallCalculateEthanolMass(volumeMl, abv, tempC) ==
    /\ Callable
    /\ pc' = "done"
    /\ op' = "calculateEthanolMass"
    /\ args' = [volumeMl |-> volumeMl, abv |-> abv, tempC |-> tempC]
    /\ frame' = NoLocals
    /\ ret' = calculateEthanolMass(Num100(volumeMl), Num100(abv), Num100(tempC))

NextValidate ==
    \/ \E t \in ValidateTemps : CallValidateTemperature(t)
    \/ \E t \in ValidateTemps : CallValidateTemperatureTable(t)
    \/ Release

NextFraction ==
    \/ \E abv \in AbvInputs : AbvShortcut(abv)
    \/ \E abv \in AbvInputs : AbvEnter(abv)
    \/ AbvIterate
    \/ AbvReturn
    \/ Release

NextDilution ==
    \/ \E sourceMassG \in MassInputs : \E sourceAbv \in AbvInputs :
           \E targetAbv \in AbvInputs :
               CallCalculateDilutionWater(sourceMassG, sourceAbv, targetAbv)
    \/ Release

NextHydro ==
    \/ \E readingAbv \in ReadingInputs : \E tempC \in HydroTemps :
           HydroEnter(readingAbv, tempC)
    \/ HydroIterate
    \/ HydroReturn
    \/ Release

NextDensity ==
    \/ \E abv \in DensityAbvs : \E tempC \in DensityTemps :
           CallCalculateDensity(abv, tempC)
    \/ \E tempC \in DensityTemps : CallCalculateWaterDensity(tempC)
    \/ \E tempC \in DensityTemps : CallCalculateEthanolDensity(tempC)
    \/ \E p16 \in RhoFractions : \E t \in RhoTemps : CallRho(p16, t)
    \/ Release

NextRoundTrip ==
    \/ \E abv \in RoundTripAbvs : CallMassFractionToAbv(abv)
    \/ Release

NextDirection ==
    \/ \E readingAbv \in DirectionReadings : \E tempC \in DirectionTemps :
           HydroEnter(readingAbv, tempC)
    \/ HydroIterate
    \/ HydroReturn
    \/ Release

NextRounding ==
    \/ \E abv \in RoundingAbvs : \E tempC \in RoundingTemps :
           CallCalculateDensity(abv, tempC)
    \/ \E massG \in RoundingMasses : \E abv \in RoundingAbvs :
           \E tempC \in RoundingTemps :
               CallCalculateVolumeFromMass(massG, abv, tempC)
    \/ \E volumeMl \in RoundingMasses : \E abv \in RoundingAbvs :
           \E tempC \in RoundingTemps :
               CallCalculateEthanolMass(volumeMl, abv, tempC)
    \/ \E sourceMassG \in RoundingMasses : \E sourceAbv \in RoundingAbvs :
           \E targetAbv \in RoundingAbvs :
               CallCalculateDilutionWater(sourceMassG, sourceAbv, targetAbv)
    \/ \E readingAbv \in RoundingAbvs : \E tempC \in RoundingTemps :
           HydroEnter(readingAbv, tempC)
    \/ HydroIterate
    \/ HydroReturn
    \/ Release

\* a render of a calculator: its result is computed from the form
Render(name, form, r) ==
    /\ Callable
    /\ pc' = "done"
    /\ op' = name
    /\ args' = form
    /\ frame' = [i |-> 0, calls |-> r.calls, warning |-> r.warning]
    /\ ret' = r.result

RenderWeighingCalc(targetMl, abv, temp) ==
    Render("WeighingCalc", [targetMl |-> targetMl, abv |-> abv, temp |-> temp],
           WeighingCalc(targetMl, abv, temp))

RenderDilutionCalc(sourceMass, sourceAbv, targetAbv, temp) ==
    Render("DilutionCalc",
           [sourceMass |-> sourceMass, sourceAbv |-> sourceAbv,
            targetAbv |-> targetAbv, temp |-> temp],
           DilutionCalc(sourceMass, sourceAbv, targetAbv, temp))

RenderHydrometerCalc(readingAbv, temp) ==
    Render("HydrometerCalc", [readingAbv |-> readingAbv, temp |-> temp],
           HydrometerCalc(readingAbv, temp))

RenderVolumeCalc(mass, abv, temp) ==
    Render("VolumeCalc", [mass |-> mass, abv |-> abv, temp |-> temp],
           VolumeCalc(mass, abv, temp))

NextPage ==
    \/ \E targetMl \in FormMasses : \E abv \in FormAbvs : \E temp \in FormTemps :
           RenderWeighingCalc(targetMl, abv, temp)
    \/ \E sourceMass \in FormMasses : \E sourceAbv \in FormAbvs :
           \E targetAbv \in FormAbvs : \E temp \in FormTemps :
               RenderDilutionCalc(sourceMass, sourceAbv, targetAbv, temp)
    \/ \E readingAbv \in FormAbvs : \E temp \in FormTemps :
           RenderHydrometerCalc(readingAbv, temp)
    \/ \E mass \in FormMasses : \E abv \in FormAbvs : \E temp \in FormTemps :
           RenderVolumeCalc(mass, abv, temp)
    \/ Release

NextDilute ==
    \/ \E sourceMassG \in DiluteMasses : \E sourceAbv \in DiluteAbvs :
           \E targetAbv \in DiluteAbvs :
               CallCalculateDilutionWater(sourceMassG, sourceAbv, targetAbv)
    \/ Release

NextMonotone ==
    \/ \E abv \in MonotoneAbvs : AbvShortcut(abv)
    \/ \E abv \in MonotoneAbvs : AbvEnter(abv)
    \/ AbvIterate
    \/ AbvReturn
    \/ Release

NextSaturate ==
    \/ \E readingAbv \in SaturateReadings : \E tempC \in SaturateTemps :
           HydroEnter(readingAbv, tempC)
    \/ HydroIterate
    \/ HydroReturn
    \/ Release

\* the page is opened on a fragment
Mount(hash) ==
    /\ Callable
    /\ pc' = "home"
    /\ op' = "Home"
    /\ args' = [hash |-> hash]
    /\ frame' = Mounted(hash)
    /\ ret' = NoValue

\* the page is reloaded on the fragment that it wrote
Reload ==
    /\ pc = "home"
    /\ args' = [hash |-> frame.hash]
    /\ frame' = Mounted(frame.hash)
    /\ UNCHANGED <<pc, op, ret>>

\* an event of the mounted page that leaves the component with the state f
HomeEvent(event, f) ==
    /\ pc = "home"
    /\ args' = event
    /\ frame' = f
    /\ UNCHANGED <<pc, op, ret>>

UpdateModule(module) ==
    HomeEvent([module |-> module],
              WithState(frame, [frame.state EXCEPT !.module = Str1(module)]))

UpdateTemp(temp) == HomeEvent([temp |-> temp], WithTemp(frame, temp))

UpdateWeighing(field, value) ==
    HomeEvent([field |-> field, value |-> value],
              WithState(frame, [frame.state EXCEPT !.weighing[field] =
                                    ReplaceFirst(value, ",", Str1("."))]))

UpdateDilution(field, value) ==
    HomeEvent([field |-> field, value |-> value],
              WithState(frame, [frame.state EXCEPT !.dilution[field] =
                                    ReplaceFirst(value, ",", Str1("."))]))

UpdateHydrometer(field, value) ==
    HomeEvent([field |-> field, value |-> value],
              WithState(frame, [frame.state EXCEPT !.hydrometer[field] =
                                    ReplaceFirst(value, ",", Str1("."))]))

UpdateVolume(field, value) ==
    HomeEvent([field |-> field, value |-> value],
              WithState(frame, [frame.state EXCEPT !.volume[field] =
                                    ReplaceFirst(value, ",", Str1("."))]))

\* fetchGeoTemp up to its first await: the button is pressed
FetchGeoTemp ==
    /\ pc = "home"
    /\ LookupButtonEnabled(frame)
    /\ Len(frame.lookups) < MaxLookups
    /\ HomeEvent([click |-> "fetchGeoTemp"],
                 [frame EXCEPT !.isLoadingGeo = TRUE, !.geoError = "null",
                               !.lookups = frame.lookups \o <<"geo">>])

\* fetchGeoTemp from its first await to its second, or to its end
GeoResponds(outcome) ==
    /\ pc = "home"
    /\ frame.lookups # <<>>
    /\ Head(frame.lookups) = "geo"
    /\ HomeEvent([response |-> "geo", outcome |-> outcome],
                 AfterGeo(frame, outcome))

\* fetchGeoTemp from its second await to its end
WeatherResponds(outcome, temperature) ==
    /\ pc = "home"
    /\ frame.lookups # <<>>
    /\ Head(frame.lookups) = "weather"
    /\ HomeEvent([response |-> "weather", outcome |-> outcome,
                  temperature |-> temperature],
                 AfterWeather(frame, outcome, temperature))

NextPersist ==
    \/ \E hash \in OpeningHashes : Mount(hash)
    \/ Reload
    \/ \E module \in ModuleIds : UpdateModule(module)
    \/ \E temp \in FieldTexts : UpdateTemp(temp)
    \/ \E field \in EditedWeighingFields : \E value \in FieldTexts :
           UpdateWeighing(field, value)
    \/ \E field \in EditedDilutionFields : \E value \in FieldTexts :
           UpdateDilution(field, value)
    \/ \E value \in FieldTexts : UpdateHydrometer("readingAbv", value)
    \/ \E field \in EditedVolumeFields : \E value \in FieldTexts :
           UpdateVolume(field, value)

\* a request that is waited for ends
Responds ==
    \/ \E outcome \in Outcomes : GeoResponds(outcome)
    \/ \E outcome \in Outcomes : \E temperature \in WeatherTemps :
           WeatherResponds(outcome, temperature)

NextGeo ==
    \/ Mount(<<>>)
    \/ Reload
    \/ \E module \in ModuleIds : UpdateModule(module)
    \/ \E temp \in FieldTexts : UpdateTemp(temp)
    \/ FetchGeoTemp
    \/ Responds

NextExtremes ==
    \/ \E t \in ExtremeTemps : CallValidateTemperature(t)
    \/ \E abv \in ExtremeAbvs : AbvShortcut(abv)
    \/ \E abv \in ExtremeAbvs : AbvEnter(abv)
    \/ AbvIterate
    \/ AbvReturn
    \/ \E abv \in ExtremeAbvs : CallMassFractionToAbv(abv)
    \/ \E abv \in ExtremeAbvs : \E tempC \in ExtremeTemps :
           CallCalculateDensity(abv, tempC)
    \/ \E tempC \in ExtremeTemps : CallCalculateWaterDensity(tempC)
    \/ \E tempC \in ExtremeTemps : CallCalculateEthanolDensity(tempC)
    \/ \E massG \in ExtremeMasses : \E abv \in ExtremeAbvs :
           \E tempC \in ExtremeTemps :
               CallCalculateVolumeFromMass(massG, abv, tempC)
    \/ \E volumeMl \in ExtremeMasses : \E abv \in ExtremeAbvs :
           \E tempC \in ExtremeTemps :
               CallCalculateEthanolMass(volumeMl, abv, tempC)
    \/ \E sourceMassG \in ExtremeMasses : \E sourceAbv \in ExtremeAbvs :
           \E targetAbv \in ExtremeAbvs :
               CallCalculateDilutionWater(sourceMassG, sourceAbv, targetAbv)
    \/ \E readingAbv \in ExtremeAbvs : \E tempC \in ExtremeTemps :
           HydroEnter(readingAbv, tempC)
    \/ HydroIterate
    \/ HydroReturn
    \/ Release

Next ==
    \/ NextValidate
    \/ NextFraction
    \/ NextDilution
    \/ NextHydro
    \/ NextDensity
    \/ NextRoundTrip
    \/ NextDirection
    \/ NextRounding
    \/ NextExtremes
    \/ NextPage
    \/ NextPersist
    \/ NextGeo
    \/ NextSaturate
    \/ NextMonotone
    \/ NextDilute

Spec == Init /\ [][Next]_vars

\* the calls of one operation only
SpecValidate == Init /\ [][NextValidate]_vars

SpecFraction == Init /\ [][NextFraction]_vars

SpecDilution == Init /\ [][NextDilution]_vars

SpecHydro == Init /\ [][NextHydro]_vars

SpecDirection == Init /\ [][NextDirection]_vars

SpecDensity == Init /\ [][NextDensity]_vars

SpecRounding == Init /\ [][NextRounding]_vars

SpecDilute == Init /\ [][NextDilute]_vars

SpecMonotone == Init /\ [][NextMonotone]_vars

SpecSaturate == Init /\ [][NextSaturate]_vars

SpecPersist == Init /\ [][NextPersist]_vars

\* the lookups of the temperature; a request that is waited for ends
SpecGeo ==
    /\ Init
    /\ [][NextGeo]_vars
    /\ ([]<>(~(pc = "home" /\ frame.lookups # <<>>)) \/ []<><<Responds>>_vars)

SpecPage == Init /\ [][NextPage]_vars

SpecRoundTrip == Init /\ [][NextRoundTrip]_vars

\* the two solvers, every step of a running call taken eventually: a call
\* runs to its end without waiting on anything.  An iteration is enabled
\* exactly when the call is in its loop with iterations left, and a return
\* exactly when none is left, so the weak fairness of each of the four steps
\* is written with that condition.
NextSolvers ==
    \/ NextFraction
    \/ \E readingAbv \in SolverReadings : \E tempC \in SolverTemps :
           HydroEnter(readingAbv, tempC)
    \/ HydroIterate
    \/ HydroReturn

SpecSolvers ==
    /\ Init
    /\ [][NextSolvers]_vars
    /\ ([]<>(~(pc = "bisect" /\ frame.i < ABV_ITERATIONS)) \/
        []<><<AbvIterate>>_vars)
    /\ ([]<>(~(pc = "search" /\ frame.i < HYDRO_ITERATIONS)) \/
        []<><<HydroIterate>>_vars)
    /\ ([]<>(~(pc = "bisect" /\ frame.i = ABV_ITERATIONS)) \/
        []<><<AbvReturn>>_vars)
    /\ ([]<>(~(pc = "search" /\ frame.i = HYDRO_ITERATIONS)) \/
        []<><<HydroReturn>>_vars)

\* every engine operation, called outside the sensible domain of its
\* arguments; the steps of a running call are taken eventually, as in
\* SpecSolvers
SpecExtremes ==
    /\ Init
    /\ [][NextExtremes]_vars
    /\ ([]<>(~(pc = "bisect" /\ frame.i < ABV_ITERATIONS)) \/
        []<><<AbvIterate>>_vars)
    /\ ([]<>(~(pc = "search" /\ frame.i < HYDRO_ITERATIONS)) \/
        []<><<HydroIterate>>_vars)
    /\ ([]<>(~(pc = "bisect" /\ frame.i = ABV_ITERATIONS)) \/
        []<><<AbvReturn>>_vars)
    /\ ([]<>(~(pc = "search" /\ frame.i = HYDRO_ITERATIONS)) \/
        []<><<HydroReturn>>_vars)

---------------------------------------------------------------------------
(* The claims.  Arguments are in hundredths, so 1000 is 10 degrees or 10 % *)
(* ABV; the fields a call returns are integers scaled by their decimals.   *)

Returned(name) == pc = "done" /\ op = name

\* C1: validateTemperature(t) puts every temperature in exactly one band:
\* 'danger' when t < 10 or t > 30, 'caution' when t is in [10, 30] and
\* (t < 15 or t > 25), 'none' when 15 <= t <= 25; 10 and 30 are 'caution',
\* 15 and 25 are 'none'.  Both variants of the operation are covered.
C1_TemperatureBands ==
    (pc = "done" /\ op \in {"validateTemperature", "validateTemperatureTable"}) =>
        LET t == args.tempC
        IN  /\ ret.warning \in {"danger", "caution", "none"}
            /\ ret.warning = "danger" <=> (t < 1000 \/ t > 3000)
            /\ ret.warning = "caution" <=>
                   ((1000 <= t /\ t <= 3000) /\ (t < 1500 \/ t > 2500))
            /\ ret.warning = "none" <=> (1500 <= t /\ t <= 2500)
            /\ t \in {1000, 3000} => ret.warning = "caution"
            /\ t \in {1500, 2500} => ret.warning = "none"

\* validateTemperature(10) has returned 'caution'
C1_Witness ==
    /\ Returned("validateTemperature")
    /\ args.tempC = 1000
    /\ ret.warning = "caution"

\* 100 / 2^30, the width of the interval the search of getHydrometerCorrection
\* is left with
SearchWidth == DivSmall(DivSmall(FromInt(100), 2^15), 2^15)

\* C2: correctHydrometerReading(readingAbv, t) sets outsideTableRange exactly
\* when t < 10 or t > 30 (t = 10 and t = 30 give false); for every
\* temperature, in the band or not, the call runs the whole search and
\* returns the trueAbv and the correction that the search leaves: the flag
\* does not block or change the computation.
C2_OutsideTableRange ==
    /\ Returned("correctHydrometerReading") =>
           /\ ret.outsideTableRange <=> (args.tempC < 1000 \/ args.tempC > 3000)
           /\ frame.i = HYDRO_ITERATIONS
           /\ Sub(frame.high, frame.low) = SearchWidth
           /\ ret.trueAbv = ToFixed(frame.trueAbv, 1)
           /\ ret.correction =
                  ToFixed(Sub(frame.trueAbv, Num100(args.readingAbv)), 1)
    /\ pc = "search" => frame.i <= HYDRO_ITERATIONS

\* correctHydrometerReading(40.5, 35) has returned 35.2 with the flag set
C2_Witness ==
    /\ Returned("correctHydrometerReading")
    /\ args = [readingAbv |-> 4050, tempC |-> 3500]
    /\ ret.outsideTableRange
    /\ ret.trueAbv = 352
    /\ ret.correction = -53

\* C3: for every readingAbv and temperature the fields correctHydrometerReading
\* returns satisfy trueAbv = readingAbv + correction, each field as returned
\* (rounded to one decimal).  In hundredths: 10 * trueAbv = readingAbv +
\* 10 * correction.
C3_TrueAbvIsReadingPlusCorrection ==
    Returned("correctHydrometerReading") =>
        10 * ret.trueAbv = args.readingAbv + 10 * ret.correction

\* C4, as stated: for every reading x in [0, 100],
\* correctHydrometerReading(x, 20) returns |correction| < 0.1 and trueAbv
\* equal to x to one decimal place.
C4_IdentityAtReference ==
    (/\ Returned("correctHydrometerReading")
     /\ args.tempC = 2000
     /\ 0 <= args.readingAbv /\ args.readingAbv <= 10000) =>
        /\ -1 < ret.correction /\ ret.correction < 1
        /\ ret.trueAbv = ToFixed(Num100(args.readingAbv), 1)

\* C4, amended: for every reading x in [0, 100],
\* correctHydrometerReading(x, 20) returns a correction of 0 and a trueAbv
\* within 0.05 of x, which is x itself when x has one decimal.
C4_IdentityAtReferenceAmended ==
    (/\ Returned("correctHydrometerReading")
     /\ args.tempC = 2000
     /\ 0 <= args.readingAbv /\ args.readingAbv <= 10000) =>
        /\ ret.correction = 0
        /\ 10 * ret.trueAbv - args.readingAbv \in -5..5
        /\ args.readingAbv % 10 = 0 => 10 * ret.trueAbv = args.readingAbv

\* correctHydrometerReading(20.25, 20) has returned 20.2, and 20.25 to one
\* decimal is 20.3
C4_Witness ==
    /\ Returned("correctHydrometerReading")
    /\ args = [readingAbv |-> 2025, tempC |-> 2000]
    /\ ret.trueAbv = 202
    /\ ret.correction = 0
    /\ ToFixed(Num100(args.readingAbv), 1) = 203

\* C5: abvToMassFraction takes the boundary shortcuts without running the
\* solver: abv <= 0 returns exactly 0 and abv >= 100 returns exactly 1, no
\* iteration having run; the bisection runs, and runs its 40 iterations, only
\* for 0 < abv < 100.
C5_BoundaryShortcuts ==
    /\ (Returned("abvToMassFraction") /\ args.abv <= 0) =>
           ret.p = Zero /\ frame = NoLocals
    /\ (Returned("abvToMassFraction") /\ args.abv >= 10000) =>
           ret.p = One /\ frame = NoLocals
    /\ pc = "bisect" => (0 < args.abv /\ args.abv < 10000)
    /\ (Returned("abvToMassFraction") /\ 0 < args.abv /\ args.abv < 10000) =>
           frame.i = ABV_ITERATIONS

\* abvToMassFraction(120) has returned 1 and abvToMassFraction(0) would
\* return 0, neither through the loop
C5_Witness ==
    /\ Returned("abvToMassFraction")
    /\ args.abv = 12000
    /\ ret.p = One
    /\ frame = NoLocals

\* C6: abvToMassFraction returns a mass fraction p with 0 <= p <= 1 for every
\* abv, inside [0, 100] or not; in the bisection, low <= p <= high and
\* 0 <= low <= high <= 1 hold after every iteration.
C6_FractionInUnitInterval ==
    /\ Returned("abvToMassFraction") => (Le(Zero, ret.p) /\ Le(ret.p, One))
    /\ (op = "abvToMassFraction" /\ frame.i >= 1) =>
           /\ Le(Zero, frame.low)
           /\ Le(frame.low, frame.p)
           /\ Le(frame.p, frame.high)
           /\ Le(frame.low, frame.high)
           /\ Le(frame.high, One)

\* the bisection for abv = 40 is past its 17th iteration with both bounds
\* moved
C6_Witness ==
    /\ pc = "bisect"
    /\ args.abv = 4000
    /\ frame.i = 17
    /\ Lt(Zero, frame.low)
    /\ Lt(frame.high, One)

\* the returned fields of a dilution whose arguments meet the precondition
\* sourceMassG > 0 and 0 < targetAbv < sourceAbv <= 100
Dilution ==
    /\ Returned("calculateDilutionWater")
    /\ args.sourceMassG > 0
    /\ 0 < args.targetAbv
    /\ args.targetAbv < args.sourceAbv
    /\ args.sourceAbv <= 10000

\* |x|
AbsInt(x) == IF x < 0 THEN -x ELSE x

\* C7, as stated: for any dilution the returned fields satisfy
\* |finalMassG - ethanolMassG / targetMassFraction| < 0.05.  With
\* finalMassG = F / 10, ethanolMassG = E / 100 and targetMassFraction =
\* T / 10^4 this is 2 * |F * T - 1000 * E| < T.
C7_MassConservation ==
    Dilution =>
        LET F == ret.finalMassG.n
            E == ret.ethanolMassG.n
            T == ret.targetMassFraction.n
        IN  2 * AbsInt(F * T - 1000 * E) < T

\* C7, amended: for any dilution the returned fields satisfy
\* |ethanolMassG - finalMassG * targetMassFraction| <=
\*     0.006 + 0.00005 * finalMassG + 0.05 * targetMassFraction,
\* the tolerance that the rounding of the three fields leaves.  In the units
\* above this is 2 * |1000 * E - F * T| <= 1200 + F + T.
C7_MassConservationAmended ==
    Dilution =>
        LET F == ret.finalMassG.n
            E == ret.ethanolMassG.n
            T == ret.targetMassFraction.n
        IN  /\ ret.finalMassG.kind = "finite"
            /\ 2 * AbsInt(1000 * E - F * T) <= 1200 + F + T

\* calculateDilutionWater(250.25, 40, 20) has returned finalMassG = 514.0,
\* ethanolMassG = 83.33 and targetMassFraction = 0.1621, and
\* 83.33 / 0.1621 is 514.07
C7_Witness ==
    /\ Dilution
    /\ args = [sourceMassG |-> 25025, sourceAbv |-> 4000, targetAbv |-> 2000]
    /\ ret.finalMassG = Finite(5140)
    /\ ret.ethanolMassG = Finite(8333)
    /\ ret.targetMassFraction = Finite(1621)

\* C8: for every call of calculateDilutionWater the returned fields satisfy
\* waterToAddG = finalMassG - sourceMassG.  In hundredths:
\* 10 * waterToAddG = 10 * finalMassG - sourceMassG, both fields numbers.
C8_WaterIsFinalMinusSource ==
    Returned("calculateDilutionWater") =>
        /\ ret.waterToAddG.kind = "finite"
        /\ ret.finalMassG.kind = "finite"
        /\ 10 * ret.waterToAddG.n = 10 * ret.finalMassG.n - args.sourceMassG

\* C9, as stated: whenever targetAbv < sourceAbv does not hold, the result has
\* a negative or a non-finite waterToAddG.
C9_NegativeOrUndefined ==
    (Returned("calculateDilutionWater") /\ ~(args.targetAbv < args.sourceAbv)) =>
        \/ ret.waterToAddG.kind # "finite"
        \/ ret.waterToAddG.n < 0

\* C9, amended: calculateDilutionWater returns its five fields whatever its
\* arguments; whenever targetAbv < sourceAbv does not hold and sourceMassG >= 0,
\* waterToAddG is never positive: it is NaN exactly when targetAbv <= 0, and
\* otherwise a number <= 0, which is 0 when the two strengths are equal or
\* both are 100 or more.
C9_NeverPositive ==
    Returned("calculateDilutionWater") =>
        /\ DOMAIN ret = {"waterToAddG", "finalMassG", "ethanolMassG",
                         "sourceMassFraction", "targetMassFraction"}
        /\ (~(args.targetAbv < args.sourceAbv) /\ args.sourceMassG >= 0) =>
               /\ ret.waterToAddG.kind = "NaN" <=> args.targetAbv <= 0
               /\ args.targetAbv > 0 =>
                      /\ ret.waterToAddG.kind = "finite"
                      /\ ret.waterToAddG.n <= 0
               /\ (/\ args.targetAbv > 0
                   /\ (args.targetAbv = args.sourceAbv \/ args.sourceAbv >= 10000)) =>
                      ret.waterToAddG.n = 0

\* calculateDilutionWater(250.25, 40, 40) has returned waterToAddG = 0
C9_Witness ==
    /\ Returned("calculateDilutionWater")
    /\ args = [sourceMassG |-> 25025, sourceAbv |-> 4000, targetAbv |-> 4000]
    /\ ret.waterToAddG = Finite(0)

---------------------------------------------------------------------------
(* Termination and the absence of errors *)

\* a step of a call inside a loop counts one iteration or leaves the loop
LoopStep ==
    pc \in {"bisect", "search"} =>
        \/ pc' = pc /\ frame'.i = frame.i + 1
        \/ pc' = "done" /\ frame' = frame

\* C11: abvToMassFraction returns after exactly 40 iterations, or after none
\* when a boundary shortcut applies, and getHydrometerCorrection after exactly
\* 30; each step of a loop counts one iteration, and every call that entered
\* a loop eventually returns.
C11_SolversTerminate ==
    /\ [](Returned("abvToMassFraction") =>
              frame.i = (IF Shortcut(Num100(args.abv)) THEN 0 ELSE 40))
    /\ [](Returned("correctHydrometerReading") => frame.i = 30)
    /\ [][LoopStep]_vars
    /\ (pc = "bisect") ~> (pc = "done")
    /\ (pc = "search") ~> (pc = "done")

\* a correction of the reading 40.5 at 15 degrees returned after its 30
\* iterations
C11_Witness ==
    /\ Returned("correctHydrometerReading")
    /\ args = [readingAbv |-> 4050, tempC |-> 1500]
    /\ frame.i = 30

\* what a JavaScript number is: finite, NaN or an infinity
NumberKinds == {"finite", "NaN", "Infinity", "-Infinity"}

\* the value returned is the complete result of the operation, every number
\* of it a number; outsideTableRange and warning are its only signals
ResultReturned ==
    /\ Returned("validateTemperature") =>
           /\ DOMAIN ret = {"isValid", "warning", "message"}
           /\ ret.warning \in {"none", "caution", "danger"}
           /\ ret.isValid \in BOOLEAN
    /\ Returned("abvToMassFraction") => DOMAIN ret = {"p"}
    /\ Returned("massFractionToAbv") => DOMAIN ret = {"abv"}
    /\ Returned("calculateDensity") =>
           /\ DOMAIN ret = {"density", "contractionFactor"}
           /\ \A f \in DOMAIN ret : ret[f].kind = "finite"
    /\ (Returned("calculateWaterDensity") \/ Returned("calculateEthanolDensity")
            \/ Returned("calculateEthanolMass")) =>
           ret.kind = "finite"
    /\ Returned("calculateVolumeFromMass") =>
           /\ DOMAIN ret = {"volumeMl", "density", "contractionFactor"}
           /\ \A f \in DOMAIN ret : ret[f].kind = "finite"
    /\ Returned("calculateDilutionWater") =>
           /\ DOMAIN ret = {"waterToAddG", "finalMassG", "ethanolMassG",
                            "sourceMassFraction", "targetMassFraction"}
           /\ \A f \in DOMAIN ret : ret[f].kind \in NumberKinds
    /\ Returned("correctHydrometerReading") =>
           /\ DOMAIN ret = {"correction", "trueAbv", "abvRange", "tempRounded",
                            "interpolated", "outsideTableRange", "tempUsed"}
           /\ ret.correction \in Int
           /\ ret.trueAbv \in Int
           /\ ret.outsideTableRange \in BOOLEAN

\* C12: no engine operation fails, whatever the numbers passed, strengths
\* below 0 or above 100 and temperatures outside the calibration range
\* included: every call returns, what it returns is its complete result, and
\* the flag outsideTableRange and the warning level are the only signals in
\* it.
C12_AlwaysReturns ==
    /\ []ResultReturned
    /\ [](pc \in {"idle", "bisect", "search", "done"})
    /\ (pc # "idle") ~> (pc = "done")

\* calculateDilutionWater(-250.25, 120, -20) returned: the water to add is
\* not a finite number
C12_Witness ==
    /\ Returned("calculateDilutionWater")
    /\ args = [sourceMassG |-> -25025, sourceAbv |-> 12000, targetAbv |-> -2000]
    /\ ret.waterToAddG.kind = "-Infinity"

---------------------------------------------------------------------------
(* The density *)

\* the polynomial evaluated at p and t, divided by 1000 and rounded to the
\* decimals of the density field
PolynomialAt(p, t) == Finite(ToFixed(Thousandth(rho_p_t(p, Num100(t))), 6))

\* C13: for every temperature t, calculateDensity(abv, t) with abv <= 0 is the
\* polynomial evaluated at p = 0 and with abv >= 100 the polynomial evaluated
\* at p = 1, each divided by 1000 and rounded; calculateWaterDensity(t) and
\* calculateEthanolDensity(t) return these two values.
C13_EndpointDensities ==
    /\ (Returned("calculateDensity") /\ args.abv <= 0) =>
           ret.density = PolynomialAt(Zero, args.tempC)
    /\ (Returned("calculateDensity") /\ args.abv >= 10000) =>
           ret.density = PolynomialAt(One, args.tempC)
    /\ Returned("calculateWaterDensity") => ret = PolynomialAt(Zero, args.tempC)
    /\ Returned("calculateEthanolDensity") => ret = PolynomialAt(One, args.tempC)

\* calculateDensity(-16, 30) returned the density of water at 30 degrees
C13_Witness ==
    /\ Returned("calculateDensity")
    /\ args = [abv |-> -1600, tempC |-> 3000]
    /\ ret.density = Finite(995645)

\* <<1, 1, ..., 1>>: the powers of p = 1
OnePowers == [k \in 1..Len(A) |-> One]

\* C14: calculateDensity(0, 20) returns the density 0.998201 and
\* calculateDensity(100, 20), which calculateEthanolDensity(20) returns too,
\* 0.789239; at t = 20 the B and C terms add nothing to the polynomial, so
\* the two are A[0] / 1000 and (A[0] + ... + A[11]) / 1000 rounded to 6
\* decimals.
C14_ReferenceDensities ==
    /\ (Returned("calculateDensity") /\ args = [abv |-> 0, tempC |-> 2000]) =>
           /\ ret.density = Finite(998201)
           /\ ret.density.n = ToFixed(Thousandth(A[1]), 6)
    /\ (\/ Returned("calculateDensity") /\ args = [abv |-> 10000, tempC |-> 2000]
        \/ Returned("calculateEthanolDensity") /\ args = [tempC |-> 2000]) =>
           \E d \in {IF op = "calculateDensity" THEN ret.density ELSE ret} :
               /\ d = Finite(789239)
               /\ d.n = ToFixed(Thousandth(SumA(OnePowers, 0, Len(A) - 1)), 6)
    /\ (Returned("rho_p_t") /\ args.t = 2000) =>
           ret.rho = SumA(Powers(DivSmall(FromInt(args.p16), 16), Len(A) - 1),
                          0, Len(A) - 1)

\* calculateDensity(100, 20) returned
C14_Witness ==
    /\ Returned("calculateDensity")
    /\ args = [abv |-> 10000, tempC |-> 2000]
    /\ ret.density = Finite(789239)

\* a temperature that validateTemperature accepts: 10 to 30 degrees
ValidTemp(t) == validateTemperature(Num100(t)).isValid

C19_NoContractionAtEndpoints ==
    (Returned("calculateDensity") /\ (args.abv <= 0 \/ args.abv >= 10000)) =>
        ret.contractionFactor = Finite(1000000)

\* calculateDensity(112, 30) returned the density of ethanol and the factor 1
C19_Witness ==
    /\ Returned("calculateDensity")
    /\ args = [abv |-> 11200, tempC |-> 3000]
    /\ ret = [density |-> Finite(780030), contractionFactor |-> Finite(1000000)]

---------------------------------------------------------------------------
(* The round trip through the mass fraction *)

\* 200 / 2^40: twice the width, in percent, of the interval the bisection of
\* abvToMassFraction is left with
RoundTripTolerance ==
    DivSmall(DivSmall(DivSmall(FromInt(200), 2^14), 2^14), 2^12)

\* C15: for every abv in [0, 100], the endpoints 0 and 100 with their shortcut
\* values p = 0 and p = 1 included, massFractionToAbv(abvToMassFraction(abv))
\* is within the tolerance of the 40-step bisection of abv.
C15_RoundTrip ==
    (Returned("massFractionToAbv") /\ 0 <= args.abv /\ args.abv <= 10000) =>
        Le(Abs(Sub(ret.abv, Num100(args.abv))), RoundTripTolerance)

\* the same below 100 % only
C15_RoundTripBelow100 ==
    (Returned("massFractionToAbv") /\ 0 <= args.abv /\ args.abv < 10000) =>
        Le(Abs(Sub(ret.abv, Num100(args.abv))), RoundTripTolerance)

\* the round trip of 100 % ends more than 0.0001 below 100
C15_Endpoint ==
    (Returned("massFractionToAbv") /\ args.abv = 10000) =>
        /\ args.massFrac = One
        /\ Lt(ret.abv, Sub(FromInt(100), DivSmall(One, 10000)))

---------------------------------------------------------------------------
(* The direction of the hydrometer correction *)

\* a correction of a reading in (0, 100) has returned
Corrected ==
    /\ Returned("correctHydrometerReading")
    /\ 0 < args.readingAbv
    /\ args.readingAbv < 10000

\* C17: for every reading in (0, 100), a temperature above 20 gives
\* trueAbv <= readingAbv and correction <= 0, and a temperature below 20
\* trueAbv >= readingAbv and correction >= 0; 40 % at 25 degrees gives 38.3 %
\* and 40 % at 15 degrees 41.5 %.
C17_CorrectionDirection ==
    /\ (Corrected /\ args.tempC > 2000) =>
           (10 * ret.trueAbv <= args.readingAbv /\ ret.correction <= 0)
    /\ (Corrected /\ args.tempC < 2000) =>
           (10 * ret.trueAbv >= args.readingAbv /\ ret.correction >= 0)
    /\ (Corrected /\ args = [readingAbv |-> 4000, tempC |-> 2500]) =>
           ret.trueAbv = 383
    /\ (Corrected /\ args = [readingAbv |-> 4000, tempC |-> 1500]) =>
           ret.trueAbv = 415

\* C17, amended: the direction holds for the correction, and for trueAbv up
\* to the rounding of trueAbv to one decimal: above 20 degrees
\* trueAbv < readingAbv + 0.05 and correction <= 0, below 20 degrees
\* trueAbv > readingAbv - 0.05 and correction >= 0; trueAbv <= readingAbv,
\* or >= readingAbv, when the reading has at most one decimal.
C17_CorrectionDirectionAmended ==
    /\ (Corrected /\ args.tempC > 2000) =>
           /\ 10 * ret.trueAbv < args.readingAbv + 5
           /\ args.readingAbv % 10 = 0 => 10 * ret.trueAbv <= args.readingAbv
           /\ ret.correction <= 0
    /\ (Corrected /\ args.tempC < 2000) =>
           /\ 10 * ret.trueAbv > args.readingAbv - 5
           /\ args.readingAbv % 10 = 0 => 10 * ret.trueAbv >= args.readingAbv
           /\ ret.correction >= 0
    /\ (Corrected /\ args = [readingAbv |-> 4000, tempC |-> 2500]) =>
           ret.trueAbv = 383
    /\ (Corrected /\ args = [readingAbv |-> 4000, tempC |-> 1500]) =>
           ret.trueAbv = 415

\* the reading 39.98 at 20.05 degrees is corrected to 40.0
C17_Witness ==
    /\ Returned("correctHydrometerReading")
    /\ args = [readingAbv |-> 3998, tempC |-> 2005]
    /\ ret.trueAbv = 400
    /\ ret.correction = 0

---------------------------------------------------------------------------
(* The rounding of the returned fields *)

\* n / 10^d is x rounded to d decimals: no further than half a unit of the
\* last decimal from x
RoundedTo(n, x, d) ==
    \E v \in {x} : \E e \in {Sub(FromInt(n), Scale10(v, d))} :
        Le(Abs(e), DivSmall(One, 2))

\* the density, in g/mL and not rounded, of the call that returned
UnroundedDensity ==
    Only({Thousandth(rho) :
          rho \in {rho_p_t(abvToMassFraction(Num100(args.abv)),
                           Num100(args.tempC))}})

\* the fields that C18 and its amended form agree on: volumeMl and the two
\* ethanol masses have 2 decimals, waterToAddG and the correction 1
OtherFieldsRounded ==
    /\ Returned("calculateVolumeFromMass") =>
           \E density \in {Millionths(ret.density.n)} :
               RoundedTo(ret.volumeMl.n, Div(Num100(args.massG), density), 2)
    /\ Returned("calculateEthanolMass") =>
           \E density \in {Millionths(ToFixed(UnroundedDensity, 6))} :
           \E massFrac \in {abvToMassFraction(Num100(args.abv))} :
               RoundedTo(ret.n,
                         Mul(Mul(Num100(args.volumeMl), density), massFrac), 2)
    /\ Returned("calculateDilutionWater") =>
           \E p1 \in {abvToMassFraction(Num100(args.sourceAbv))} :
           \E p2 \in {abvToMassFraction(Num100(args.targetAbv))} :
               /\ RoundedTo(ret.ethanolMassG.n, Mul(Num100(args.sourceMassG), p1), 2)
               /\ \E m2 \in {Div(Mul(Num100(args.sourceMassG), p1), p2)} :
                      RoundedTo(ret.waterToAddG.n,
                                Sub(m2, Num100(args.sourceMassG)), 1)
    /\ Returned("correctHydrometerReading") =>
           RoundedTo(ret.correction,
                     Sub(frame.trueAbv, Num100(args.readingAbv)), 1)

---------------------------------------------------------------------------
(* The guards of the page *)

\* a calculator has rendered
Rendered == pc = "done" /\ op \in {"WeighingCalc", "DilutionCalc",
                                    "HydrometerCalc", "VolumeCalc"}

\* the calls of the operations that compute a result
Calculations ==
    {frame.calls[k] : k \in {j \in 1..Len(frame.calls) :
                                frame.calls[j].fn # "validateTemperature"}}

\* the strength and the temperature a call passes, in hundredths
AbvOf(c) == IF c.fn = "calculateVolumeFromMass" THEN c.args[2] ELSE c.args[1]

TempOf(c) == c.args[Len(c.args)]

\* a field of the form holds a number from lo to hi, in hundredths
Within(x, lo, hi) == x.kind = "finite" /\ lo <= x.n /\ x.n <= hi

\* the strengths and the temperature of the form are in their ranges
FormInRange ==
    /\ Within(args.temp, -1000, 5000)
    /\ op \in {"WeighingCalc", "VolumeCalc"} => Within(args.abv, 0, 10000)
    /\ op = "HydrometerCalc" => Within(args.readingAbv, 0, 10000)
    /\ op = "DilutionCalc" =>
           /\ Within(args.sourceMass, 1, args.sourceMass.n)
           /\ Within(args.sourceAbv, 1, 10000)
           /\ Within(args.targetAbv, 1, args.sourceAbv.n - 1)

\* C20: the page tests the ranges before it calls the engine:
\* calculateDilutionWater is called only with sourceMass > 0 and
\* 0 < targetAbv < sourceAbv <= 100, and calculateDensity,
\* calculateVolumeFromMass and correctHydrometerReading only with a strength
\* from 0 to 100 and a temperature from -10 to 50; a form outside these
\* ranges makes none of these calls and shows no result.
C20_PageGuards ==
    Rendered =>
        /\ \A c \in Calculations :
               /\ c.fn = "calculateDilutionWater" =>
                      /\ c.args[1] > 0
                      /\ 0 < c.args[3]
                      /\ c.args[3] < c.args[2]
                      /\ c.args[2] <= 10000
               /\ c.fn \in {"calculateDensity", "calculateVolumeFromMass",
                            "correctHydrometerReading"} =>
                      /\ 0 <= AbvOf(c) /\ AbvOf(c) <= 10000
                      /\ -1000 <= TempOf(c) /\ TempOf(c) <= 5000
        /\ ~FormInRange => (ret = Null /\ Calculations = {})
        /\ (ret = Null) <=> (Calculations = {})

\* DilutionCalc has rendered 250.25 g at 100 % to be brought to 96 % at
\* 50 degrees, the limits of two ranges: the three calls are made and a
\* result is shown
C20_Witness ==
    /\ Rendered
    /\ op = "DilutionCalc"
    /\ args = [sourceMass |-> Finite(25025), sourceAbv |-> Finite(10000),
               targetAbv |-> Finite(9600), temp |-> Finite(5000)]
    /\ Len(frame.calls) = 3
    /\ ret # Null
    /\ ret.waterToAddG.kind = "finite"

---------------------------------------------------------------------------
(* The temperature warning of the page *)

\* one of the three calculators that validate the temperature has rendered a
\* form whose other fields pass its guard and whose temperature is accepted
\* and outside 10..30
AcceptedOutsideNarrowRange ==
    /\ Rendered
    /\ op \in {"WeighingCalc", "VolumeCalc", "HydrometerCalc"}
    /\ Within(args.temp, -1000, 5000)
    /\ (args.temp.n < 1000 \/ args.temp.n > 3000)
    /\ op = "WeighingCalc" =>
           (Within(args.targetMl, 1, args.targetMl.n) /\ Within(args.abv, 0, 10000))
    /\ op = "VolumeCalc" =>
           (Within(args.mass, 1, args.mass.n) /\ Within(args.abv, 0, 10000))
    /\ op = "HydrometerCalc" => Within(args.readingAbv, 0, 10000)

\* C21: a temperature that the calculators accept, from -10 to 50, and that
\* lies outside 10..30 is flagged and not rejected: the Weighing, Volume and
\* Hydrometer calculators compute a result and show a temperature warning.
C21_FlaggedNotRejected ==
    AcceptedOutsideNarrowRange => (ret # Null /\ WarningShown(frame.warning))

\* the same for every such temperature but 0, and at 0 the result is shown
\* without a warning
C21_FlaggedUnlessZero ==
    AcceptedOutsideNarrowRange =>
        /\ ret # Null
        /\ WarningShown(frame.warning) <=> args.temp.n # 0

\* VolumeCalc has rendered 250.25 g of 96 % at 0 degrees: a volume and no
\* warning
C21_Witness ==
    /\ Rendered
    /\ op = "VolumeCalc"
    /\ args = [mass |-> Finite(25025), abv |-> Finite(9600), temp |-> Finite(0)]
    /\ ret # Null
    /\ frame.warning = Undefined

---------------------------------------------------------------------------
(* The precision of the bisection *)

\* x / 2^k
RECURSIVE Halved(_, _)
Halved(x, k) == IF k = 0 THEN x ELSE Halved(DivSmall(x, 2), k - 1)

\* v(p) = p * rho_p_t(p, 20) / RHO_ETH_20, the volume fraction of the mass
\* fraction p
VolumeFraction(p) ==
    DivSmall(MulSmall(Mul(p, rho_p_t(p, FromInt(20))), 100), RHO_ETH_20)

\* the target abv / 100 of the running bisection
TargetV == DivSmall(Num100(args.abv), 100)

\* C22: in abvToMassFraction the bracket has the width high - low = 2^-k
\* after k iterations; the p returned is an end of the last bracket, whose
\* width is 2^-40; and for a target abv / 100 from v(0) to v(1) the bracket
\* holds the root at every iteration, v(low) <= target <= v(high), so that
\* with v increasing the p returned is within 2^-40 of the root.
C22_BisectionPrecision ==
    (op = "abvToMassFraction" /\ pc \in {"bisect", "done"} /\ frame # NoLocals) =>
        /\ Sub(frame.high, frame.low) = Halved(One, frame.i)
        /\ frame.i >= 1 => frame.p \in {frame.low, frame.high}
        /\ pc = "done" =>
               /\ frame.i = ABV_ITERATIONS
               /\ ret.p \in {frame.low, frame.high}
        /\ (Le(VolumeFraction(Zero), TargetV) /\ Le(TargetV, VolumeFraction(One))) =>
               /\ Le(VolumeFraction(frame.low), TargetV)
               /\ Le(TargetV, VolumeFraction(frame.high))
               /\ Le(VolumeFraction(frame.low), VolumeFraction(frame.high))

\* abvToMassFraction(40) has returned after its 40 iterations, the target
\* 0.4 between v(0) and v(1), both bounds moved
C22_Witness ==
    /\ Returned("abvToMassFraction")
    /\ args.abv = 4000
    /\ frame.i = ABV_ITERATIONS
    /\ Le(VolumeFraction(Zero), TargetV) /\ Le(TargetV, VolumeFraction(One))
    /\ Lt(Zero, frame.low)
    /\ Lt(frame.high, One)

---------------------------------------------------------------------------
(* The target of the hydrometer search *)

\* targetRho = rho(f(readingAbv), 20) of the running search
TargetRho == rho_p_t(abvToMassFraction(Num100(args.readingAbv)), FromInt(20))

\* targetRho / (1 - ALPHA * (t - 20)): the density that the reading stands for
\* once the expansion of the glass is taken out
GlassCorrectedRho ==
    Div(TargetRho, Sub(One, Mul(ALPHA, Sub(Num100(args.tempC), FromInt(20)))))

\* rho(f(abv), t) at the temperature of the running search
RhoAtSample(abv) == rho_p_t(abvToMassFraction(abv), Num100(args.tempC))

\* the search is running or has returned
InSearch == op = "correctHydrometerReading" /\ pc \in {"search", "done"}

\* the bracket of the search is 100 / 2^i wide and holds the strength whose
\* density at the sample temperature is target: the density at a lower bound
\* that has moved is above target, at an upper bound that has moved it is not;
\* the trueAbv of an iteration is the bound it moved
BracketsDensity(target) ==
    /\ Sub(frame.high, frame.low) = Halved(FromInt(100), frame.i)
    /\ frame.i >= 1 => frame.trueAbv \in {frame.low, frame.high}
    /\ frame.low = Zero \/ Lt(target, RhoAtSample(frame.low))
    /\ frame.high = FromInt(100) \/ Le(RhoAtSample(frame.high), target)

\* C23, as stated: the hydrometer search looks for the trueAbv in [0, 100]
\* whose density at the sample temperature t equals targetRho =
\* rho(f(readingAbv), 20): each of the 30 iterations raises the lower bound to
\* the midpoint when rho(f(mid), t) > targetRho and lowers the upper bound
\* otherwise, so that the trueAbv returned, before rounding, has the density
\* targetRho up to the last bracket, 100 / 2^30 wide.
C23_SearchTarget ==
    InSearch => \E target \in {TargetRho} : BracketsDensity(target)

\* C23, amended: the density searched for is targetRho / (1 - ALPHA * (t - 20)).
C23_SearchTargetAmended ==
    InSearch => \E target \in {GlassCorrectedRho} : BracketsDensity(target)

\* correctHydrometerReading(40.5, 25) has returned after 30 iterations, both
\* bounds moved, and the density of the upper bound at 25 degrees is above
\* targetRho: the bracket holds the root of the corrected density, not that
\* of targetRho
C23_Witness ==
    /\ Returned("correctHydrometerReading")
    /\ args = [readingAbv |-> 4050, tempC |-> 2500]
    /\ frame.i = HYDRO_ITERATIONS
    /\ Lt(Zero, frame.low)
    /\ Lt(frame.high, FromInt(100))
    /\ Lt(TargetRho, RhoAtSample(frame.high))

---------------------------------------------------------------------------
(* Diluting adds mass *)

\* C24, as stated: diluting never removes mass: for every sourceMassG > 0 and
\* 0 < targetAbv < sourceAbv <= 100, calculateDilutionWater returns
\* waterToAddG >= 0, finalMassG >= sourceMassG and
\* sourceMassFraction >= targetMassFraction.  finalMassG is in tenths and
\* sourceMassG in hundredths.
C24_NeverRemovesMass ==
    Dilution =>
        /\ ret.waterToAddG.kind = "finite" /\ ret.waterToAddG.n >= 0
        /\ ret.finalMassG.kind = "finite"
        /\ 10 * ret.finalMassG.n >= args.sourceMassG
        /\ ret.sourceMassFraction.n >= ret.targetMassFraction.n

\* C24, amended: finalMassG is not below sourceMassG rounded to one decimal,
\* and so is above sourceMassG - 0.05.
C24_NeverRemovesMassAmended ==
    Dilution =>
        /\ ret.waterToAddG.kind = "finite" /\ ret.waterToAddG.n >= 0
        /\ ret.finalMassG.kind = "finite"
        /\ ret.finalMassG.n >= ToFixed(Num100(args.sourceMassG), 1)
        /\ 10 * ret.finalMassG.n > args.sourceMassG - 5
        /\ ret.sourceMassFraction.n >= ret.targetMassFraction.n

\* calculateDilutionWater(1.04, 40.01, 40) has returned the final mass 1.0,
\* which is below the 1.04 g of the source, and no water to add
C24_Witness ==
    /\ Returned("calculateDilutionWater")
    /\ args = [sourceMassG |-> 104, sourceAbv |-> 4001, targetAbv |-> 4000]
    /\ ret.finalMassG = Finite(10)
    /\ ret.waterToAddG = Finite(0)

---------------------------------------------------------------------------
(* Volume from mass *)

\* C25: calculateVolumeFromMass(massG, abv, t) returns volumeMl = massG /
\* density rounded to 2 decimals, density being the rounded density of its
\* result, so that |volumeMl * density - massG| <= 0.005 * density.  With
\* volumeMl = V / 100, density = D / 10^6 and massG = M / 100 this is
\* 2 * |V * D - 10^6 * M| <= D.
C25_VolumeTimesDensity ==
    Returned("calculateVolumeFromMass") =>
        /\ ret.volumeMl.kind = "finite" /\ ret.density.kind = "finite"
        /\ ret.density = calculateDensity(Num100(args.abv), Num100(args.tempC)).density
        /\ ret.volumeMl.n =
               ToFixed(Div(Num100(args.massG), Millionths(ret.density.n)), 2)
        /\ Le(MulSmall(Abs(Sub(Mul(FromInt(ret.volumeMl.n), FromInt(ret.density.n)),
                               MulSmall(MulSmall(FromInt(args.massG), 1000), 1000))),
                       2),
              FromInt(ret.density.n))

\* calculateVolumeFromMass(1000, 40, 15) has returned a volume above the
\* 1000 mL that the mass would fill at density 1
C25_Witness ==
    /\ Returned("calculateVolumeFromMass")
    /\ args = [massG |-> 100000, abv |-> 4000, tempC |-> 1500]
    /\ ret.volumeMl.n > 100000
    /\ ret.density.n < 1000000

---------------------------------------------------------------------------
(* abvToMassFraction is monotone *)

\* the fractional part of 3 * p: a function of p that rises and falls
Sawtooth(p) == Sub(MulSmall(p, 3), FromInt(Floor(MulSmall(p, 3))))

\* the iteration of abvToMassFraction with Sawtooth in the place of v
SawtoothStep(f, targetV) ==
    Only({IF Lt(Sawtooth(p), targetV)
          THEN [low |-> p, high |-> f.high, p |-> p, i |-> f.i + 1]
          ELSE [low |-> f.low, high |-> p, p |-> p, i |-> f.i + 1] :
          p \in {Mid(f.low, f.high)}})

RECURSIVE SawtoothBisect(_, _, _)
SawtoothBisect(f, targetV, n) ==
    IF n = 0 THEN f
    ELSE IF n = 1 THEN SawtoothStep(f, targetV)
    ELSE Only({SawtoothBisect(h, targetV, n - n \div 2) :
               h \in {SawtoothBisect(f, targetV, n \div 2)}})

\* abvToMassFraction with Sawtooth in the place of v
SawtoothFraction(abv) ==
    IF Shortcut(abv) THEN ShortcutValue(abv)
    ELSE SawtoothBisect(BisectInit, DivSmall(abv, 100), ABV_ITERATIONS).p

\* C26: abvToMassFraction is monotone: abv1 <= abv2 implies
\* abvToMassFraction(abv1) <= abvToMassFraction(abv2), across the shortcuts at
\* 0 and 100 as well; this comes from the bisection alone, and holds with a
\* function that rises and falls in the place of the density polynomial.
C26_Monotone ==
    Returned("abvToMassFraction") =>
        \A abv2 \in {a \in MonotoneAbvs : a >= args.abv} :
            /\ Le(ret.p, abvToMassFraction(Num100(abv2)))
            /\ Le(SawtoothFraction(Num100(args.abv)), SawtoothFraction(Num100(abv2)))

\* abvToMassFraction(99.99) has returned, through the loop, a fraction below
\* the 1 of abvToMassFraction(100) and above that of 99.75
C26_Witness ==
    /\ Returned("abvToMassFraction")
    /\ args.abv = 9999
    /\ frame.i = ABV_ITERATIONS
    /\ Lt(ret.p, One)
    /\ Lt(abvToMassFraction(Num100(9975)), ret.p)

---------------------------------------------------------------------------
(* The range of the corrected strength *)

\* no strength has the density searched for at the sample temperature: it is
\* below the density of pure ethanol, or above that of water
BelowEthanol == Lt(frame.correctedRho, RhoAtSample(FromInt(100)))

AboveWater == Lt(RhoAtSample(Zero), frame.correctedRho)

\* C27: the trueAbv that correctHydrometerReading returns lies in [0, 100]:
\* 0 <= low <= trueAbv <= high <= 100 holds at every iteration, and when no
\* strength has the target density at the temperature t (a reading of 100 %
\* below 20 degrees, a reading of 0 % above 20 degrees) the search ends at
\* the end of [0, 100] on that side.  trueAbv is returned in tenths.
C27_TrueAbvInRange ==
    InSearch =>
        /\ Le(Zero, frame.low)
        /\ Le(frame.low, frame.trueAbv)
        /\ Le(frame.trueAbv, frame.high)
        /\ Le(frame.high, FromInt(100))
        /\ pc = "done" => (0 <= ret.trueAbv /\ ret.trueAbv <= 1000)
        /\ (args.readingAbv = 10000 /\ args.tempC < 2000) => BelowEthanol
        /\ (args.readingAbv = 0 /\ args.tempC > 2000) => AboveWater
        /\ BelowEthanol =>
               /\ frame.high = FromInt(100)
               /\ pc = "done" => ret.trueAbv = 1000
        /\ AboveWater =>
               /\ frame.low = Zero
               /\ pc = "done" => ret.trueAbv = 0

\* correctHydrometerReading(100, 15) has returned: no strength is as light at
\* 15 degrees as the reading says, the upper bound never moved and the
\* trueAbv returned is 100
C27_Witness ==
    /\ Returned("correctHydrometerReading")
    /\ args = [readingAbv |-> 10000, tempC |-> 1500]
    /\ BelowEthanol
    /\ frame.high = FromInt(100)
    /\ ret.trueAbv = 1000
    /\ ret.correction = 0

---------------------------------------------------------------------------
(* The message of validateTemperature *)

\* C28: validateTemperature returns a message that is not empty exactly when
\* its warning level is not 'none', and isValid false exactly when the level
\* is 'danger', so that every 'caution' and every 'danger' puts a text under
\* the temperature field, which shows tempVal.message when tempVal.warning
\* is not 'none'.
C28_MessageIffWarning ==
    Returned("validateTemperature") =>
        /\ ret.message # "" <=> ret.warning # "none"
        /\ ~ret.isValid <=> ret.warning = "danger"
        /\ ret.warning # "none" => WarningShown(WarningProp(ret))

\* what holds of the operation: isValid is false exactly for 'danger', the
\* message is not empty exactly for 'danger', and a 'caution' shows no text
C28_MessageIffDanger ==
    Returned("validateTemperature") =>
        /\ ret.message # "" <=> ret.warning = "danger"
        /\ ~ret.isValid <=> ret.warning = "danger"
        /\ WarningShown(WarningProp(ret)) <=> ret.warning = "danger"

\* the variant of the table-lookup engine does what the claim says
C28_TableVariant ==
    Returned("validateTemperatureTable") =>
        /\ ret.message # "" <=> ret.warning # "none"
        /\ ~ret.isValid <=> ret.warning = "danger"
        /\ ret.warning # "none" => WarningShown(WarningProp(ret))

\* validateTemperature(12) has returned 'caution' with the empty message
C28_Witness ==
    /\ Returned("validateTemperature")
    /\ args.tempC = 1200
    /\ ret.warning = "caution"
    /\ ret.message = ""

---------------------------------------------------------------------------
(* The URL fragment *)

\* the strings of the fields of a state
FieldsOf(s) ==
    {s.temp, s.weighing.targetMl, s.weighing.abv, s.dilution.sourceMass,
     s.dilution.sourceAbv, s.dilution.targetAbv, s.hydrometer.readingAbv,
     s.volume.mass, s.volume.abv}

\* what the claim asks of a state: the module is one of the four and no
\* field holds a '~' or is '_'
Encodable(s) ==
    /\ s.module \in {Str1(m) : m \in ModuleIds}
    /\ \A x \in FieldsOf(s) : x # Str1("_") /\ \A k \in 1..Len(x) : x[k] # "~"

\* the page is mounted and its fragment is that of its state
Persisted == pc = "home" /\ frame.hash = HashOf(frame.state)

\* the fields whose default is not the empty string are all filled
DefaultsFilled(s) ==
    /\ s.temp # <<>>
    /\ s.weighing.abv # <<>>
    /\ s.dilution.sourceAbv # <<>>
    /\ s.dilution.targetAbv # <<>>
    /\ s.hydrometer.readingAbv # <<>>

\* C29: the URL fragment round-trips the state of the forms: for every state
\* whose module is one of the four and whose fields hold no '~' and are not
\* '_', decodeState('#' + encodeState(s)) = s, so that a reload after any
\* edits restores the values the user last saw, cleared fields included.
C29_FragmentRoundTrip ==
    pc = "home" =>
        /\ Persisted
        /\ Encodable(frame.state) => decodeState(frame.hash) = frame.state

\* the round trip holds for the states in which no field with a default has
\* been cleared, and for no other
C29_RoundTripUnlessCleared ==
    pc = "home" =>
        /\ Persisted
        /\ Encodable(frame.state) =>
               (decodeState(frame.hash) = frame.state <=> DefaultsFilled(frame.state))

\* the strength of the weighing form has been cleared: a reload would show
\* 96 in it
C29_Witness ==
    /\ Persisted
    /\ Encodable(frame.state)
    /\ args = [field |-> "abv", value |-> <<>>]
    /\ frame.state.weighing.abv = <<>>
    /\ decodeState(frame.hash).weighing.abv = Str2("9", "6")

---------------------------------------------------------------------------
(* The lookup of the local temperature *)

\* a run of fetchGeoTemp has not ended
LookupRunning == pc = "home" /\ frame.lookups # <<>>

\* what each step of a lookup does to the state of the page
LookupStep ==
    /\ (pc' = "home" /\ "click" \in DOMAIN args') =>
           /\ frame'.isLoadingGeo
           /\ frame'.geoError = "null"
           /\ frame'.state = frame.state
    /\ (pc' = "home" /\ "response" \in DOMAIN args') =>
           /\ frame'.state.temp # frame.state.temp =>
                  (args'.response = "weather" /\ args'.outcome = "ok")
           /\ args'.outcome # "ok" =>
                  /\ frame'.geoError # "null"
                  /\ frame'.state = frame.state
                  /\ ~frame'.isLoadingGeo
           /\ (args'.response = "weather" /\ args'.outcome = "ok") =>
                  /\ frame'.state.temp =
                         NumberToString(RoundTenths(args'.temperature))
                  /\ ~frame'.isLoadingGeo
           /\ (args'.response = "geo" /\ args'.outcome = "ok") =>
                  /\ frame'.isLoadingGeo
                  /\ frame'.state = frame.state

\* C30: a run of fetchGeoTemp sets isLoadingGeo at its start and sets it back
\* in the end, whether its two requests succeed or fail; the button is
\* disabled while isLoadingGeo is set, so that at most one lookup is running;
\* the temperature is overwritten only when both requests have succeeded, and
\* a failure sets geoError and leaves the temperature as it was.
C30_GeoLookup ==
    /\ [](pc = "home" =>
              /\ Len(frame.lookups) <= 1
              /\ frame.isLoadingGeo <=> frame.lookups # <<>>)
    /\ [][LookupStep]_vars
    /\ (pc = "home" /\ frame.isLoadingGeo) ~> (pc = "home" /\ ~frame.isLoadingGeo)

\* the second request of a lookup has come back with 18.5 degrees: the
\* temperature of the forms is 19 and no lookup is running
C30_Witness ==
    /\ pc = "home"
    /\ args = [response |-> "weather", outcome |-> "ok", temperature |-> 185]
    /\ frame.state.temp = Str2("1", "9")
    /\ ~frame.isLoadingGeo
    /\ frame.geoError = "null"

=============================================================================
